---------------------------- MODULE Spec2Model ----------------------------
(***************************************************************************)
(* P vs NP interactive demos: the SAT playground (docs/script.js), the SAT *)
(* rail (docs/script.remade.js) and the subset-sum backtracking search.    *)
(***************************************************************************)
EXTENDS Integers, Sequences, FiniteSets, TLC

VARIABLES
  cnfInput,     \* SAT playground: text of #cnf-input, a sequence of characters
  toggles,      \* SAT playground: variable index -> dataset.on of its toggle button
  resultEl,     \* SAT playground: #sat-result text
  errorEl,      \* SAT playground: #sat-error, NoError or the error caught
  witnessEl,    \* SAT playground: #sat-witness, <<>> (blank) or the assignment found
  metricsEl,    \* SAT playground: #sat-metrics, 0 (blank) or the number of assignments tried
  lastOp,       \* SAT playground: the last handler that ran ("none", "check", "solve")
  triedLog,     \* SAT playground: masks handed to evalRPN by the last Solve, in order
  ssNums,       \* subset sum: the numbers parsed from #ss-numbers
  ssTarget,     \* subset sum: the target parsed from #ss-target
  ssPc,         \* subset sum: "idle", "run" (inside backtrack) or "done" (handler returned)
  ssStack,      \* subset sum: the dfs frames [i, sum, pc], innermost last
  ssTake,       \* subset sum: the take array shared by all dfs frames
  ssBest,       \* subset sum: the variable best, Null or a copy of take
  ssRet,        \* subset sum: the value returned by the dfs call that returned last
  ssExpired,    \* subset sum: performance.now() - start > MAX_TIME_MS
  ssResult,     \* subset sum: the value backtrack returned, Null or the subset
  ssMessage,    \* subset sum: #ss-result text
  ssTimedOut,   \* subset sum (history): some dfs call of this search saw the cap exceeded
  ssAfter,      \* subset sum (history): frames open at that first sighting, dfs calls and
                \*   pushes since
  ssPrev,       \* subset sum (history): how the previous search of this page ended
  current,      \* SAT rail: the preset selected, an index into PRESETS
  railToggles,  \* SAT rail: variable index -> dataset.on of its toggle button
  railLights,   \* SAT rail: the clause lights, one truth value per clause
  railRes,      \* SAT rail: #sat-result text
  railMetrics,  \* SAT rail: #sat-metrics, what it shows
  railOp,       \* SAT rail: the last handler that ran
  railFirst,    \* SAT rail (history): one earlier Solve, any of them: its preset,
                \* the toggles it started from and what it showed
  spCurrent,    \* subset-sum rail: the preset selected, an index into SubsetPRESETS
  spRes,        \* subset-sum rail: #ss-result text
  spWitness,    \* subset-sum rail: #ss-witness, what it shows
  spOp,         \* subset-sum rail: the last handler that ran
  spTimedOut,   \* subset-sum rail (history): the last search saw its time cap exceeded
  swN,          \* SearchSpace: the state n, the slider value
  swPaths,      \* SearchSpace: the state paths, a number in limbs
  swTime,       \* SearchSpace: the state time, the unit and the value shown
  swBarHeight,  \* SearchSpace: the state barHeight
  swPending,    \* SearchSpace: the effect of [n] is scheduled and has not run
  phase,        \* CheckVsFind: "verify" or "find"
  userPath,     \* CheckVsFind: the node ids clicked together, in order
  checks,       \* CheckVsFind: the count of Verify clicks
  attempts,     \* CheckVsFind: the count of Check My Path clicks
  message,      \* CheckVsFind: the message state
  status,       \* CheckVsFind: "idle", "success" or "error"
  cvOp,         \* CheckVsFind (history): the last handler that ran
  cvClicked,    \* CheckVsFind (history): the node of the last node click, else 0
  cvBefore,     \* CheckVsFind (history): userPath before the last node click
  rgInput,      \* 3-SAT to CLIQUE: text of #rg-3sat-input, a sequence of characters
  rgGraph,      \* 3-SAT to CLIQUE: #rg-3sat-graph, the graph listed or the error caught
  rgResult,     \* 3-SAT to CLIQUE: #rg-3sat-result, what it says and the k it names
  cvEdges,      \* CLIQUE to Vertex Cover: text of #rg-cv-edges, a sequence of characters
  cvK,          \* CLIQUE to Vertex Cover: Number(cvK.value)
  cvOut,        \* CLIQUE to Vertex Cover: #rg-cv-out, what it says and the sizes it names
  agSel,        \* approximation corner: value of #ag-problem, "vc" or "sc"
  agG,          \* approximation corner: G, the graph generated, or null
  agU,          \* approximation corner: U, the universe generated, or null
  agSets,       \* approximation corner: sets, the family generated, or null
  agOut,        \* approximation corner: #ag-result, what it says
  fptSel,       \* parameterized nook: value of #fpt-problem, "kclique" or "kpath"
  fptEdges,     \* parameterized nook: edges, the graph kept between clicks
  fptOut,       \* parameterized nook: #fpt-output, what it says
  fptRunN,      \* history: the n of the run that wrote fptOut
  wallRuns,     \* scaling wall: runs, the points plotted
  wallLog,      \* scaling wall: #sw-log, what it says
  wallCsv,      \* scaling wall: the rows of the last file exported
  wallLast,     \* history: the instance of the last run and how its search went
  beltSeq,      \* reduction conveyor: seq, the problems on the belt
  beltStats,    \* reduction conveyor: #rl-stats, the verdict and a detail for each pair
  beltExpl,     \* reduction conveyor: #rl-explainer, a line for each pair
  beltOp,       \* history: the last operation on the belt
  beltBefore,   \* history: the belt before the last operation
  selectedSource, \* Reductions: the problem selected as source, "" for null
  selectedTarget, \* Reductions: the problem selected as target, "" for null
  reductionInfo, \* Reductions: the reduction shown, NoInfo for null
  taskStep,     \* Reductions micro-task: intro, challenge or success
  selectedGadget, \* Reductions micro-task: the gadget selected, 0 for null
  feedback,     \* Reductions micro-task: the feedback shown
  redOp,        \* history: the last click on the Reductions station
  currentKey,   \* graph coloring: the preset loaded
  gcNodes,      \* graph coloring: the colour c of each node, by id
  gcStatus,     \* graph coloring: #gc-status
  gcOp,         \* history: the last operation on the graph
  gcClicks,     \* history: node clicks since the graph was last uncoloured
  rqI,          \* reduction quiz: i, the number of Next clicks
  score,        \* reduction quiz: the score
  locked,       \* reduction quiz: an option of the question shown was clicked
  scoreEl,      \* reduction quiz: #rq-score
  rqClicks,     \* history: option clicks on the question shown
  domContentLoaded, \* bootstrap: the DOMContentLoaded event was delivered
  bootInvoked,  \* bootstrap: the initializers called, in the order of the calls
  bootConsole   \* bootstrap: the lines safeInit wrote to the console

satVars == <<cnfInput, toggles, resultEl, errorEl, witnessEl, metricsEl, lastOp, triedLog>>

ssVars == <<ssNums, ssTarget, ssPc, ssStack, ssTake, ssBest, ssRet, ssExpired, ssResult,
            ssMessage, ssTimedOut, ssAfter, ssPrev>>

railVars == <<current, railToggles, railLights, railRes, railMetrics, railOp, railFirst>>

spVars == <<spCurrent, spRes, spWitness, spOp, spTimedOut>>

swVars == <<swN, swPaths, swTime, swBarHeight, swPending>>

cvVars == <<phase, userPath, checks, attempts, message, status, cvOp, cvClicked, cvBefore>>

rgVars == <<rgInput, rgGraph, rgResult>>

vcVars == <<cvEdges, cvK, cvOut>>

agVars == <<agSel, agG, agU, agSets, agOut>>

fptVars == <<fptSel, fptEdges, fptOut, fptRunN>>

wallVars == <<wallRuns, wallLog, wallCsv, wallLast>>

beltVars == <<beltSeq, beltStats, beltExpl, beltOp, beltBefore>>

redVars == <<selectedSource, selectedTarget, reductionInfo, taskStep, selectedGadget, feedback, redOp>>

gcVars == <<currentKey, gcNodes, gcStatus, gcOp, gcClicks>>

rqVars == <<rqI, score, locked, scoreEl, rqClicks>>

bootVars == <<domContentLoaded, bootInvoked, bootConsole>>

vars == <<satVars, ssVars, railVars, spVars, swVars, cvVars, rgVars, vcVars, agVars, fptVars, wallVars, beltVars, redVars, gcVars, rqVars, bootVars>>

\* what the handlers of one widget leave alone: the other widgets
nonSat == <<ssVars, railVars, spVars, swVars, cvVars, rgVars, vcVars, agVars, fptVars, wallVars, beltVars, redVars, gcVars, rqVars, bootVars>>

nonSs == <<satVars, railVars, spVars, swVars, cvVars, rgVars, vcVars, agVars, fptVars, wallVars, beltVars, redVars, gcVars, rqVars, bootVars>>

nonRail == <<satVars, ssVars, spVars, swVars, cvVars, rgVars, vcVars, agVars, fptVars, wallVars, beltVars, redVars, gcVars, rqVars, bootVars>>

nonSp == <<satVars, ssVars, railVars, swVars, cvVars, rgVars, vcVars, agVars, fptVars, wallVars, beltVars, redVars, gcVars, rqVars, bootVars>>

nonSw == <<satVars, ssVars, railVars, spVars, cvVars, rgVars, vcVars, agVars, fptVars, wallVars, beltVars, redVars, gcVars, rqVars, bootVars>>

nonCv == <<satVars, ssVars, railVars, spVars, swVars, rgVars, vcVars, agVars, fptVars, wallVars, beltVars, redVars, gcVars, rqVars, bootVars>>

nonRg == <<satVars, ssVars, railVars, spVars, swVars, cvVars, vcVars, agVars, fptVars, wallVars, beltVars, redVars, gcVars, rqVars, bootVars>>

nonVc == <<satVars, ssVars, railVars, spVars, swVars, cvVars, rgVars, agVars, fptVars, wallVars, beltVars, redVars, gcVars, rqVars, bootVars>>

nonAg == <<satVars, ssVars, railVars, spVars, swVars, cvVars, rgVars, vcVars, fptVars, wallVars, beltVars, redVars, gcVars, rqVars, bootVars>>

nonFpt == <<satVars, ssVars, railVars, spVars, swVars, cvVars, rgVars, vcVars, agVars, wallVars, beltVars, redVars, gcVars, rqVars, bootVars>>

\* what a click on #reset-verify, which both rails listen to, leaves alone
nonVerify == <<satVars, ssVars, swVars, cvVars, rgVars, vcVars, agVars, fptVars, wallVars, beltVars, redVars, gcVars, rqVars, bootVars>>

nonWall == <<satVars, ssVars, railVars, spVars, swVars, cvVars, rgVars, vcVars, agVars, fptVars, beltVars, redVars, gcVars, rqVars, bootVars>>

nonBelt == <<satVars, ssVars, railVars, spVars, swVars, cvVars, rgVars, vcVars, agVars, fptVars, wallVars, redVars, gcVars, rqVars, bootVars>>

nonRed == <<satVars, ssVars, railVars, spVars, swVars, cvVars, rgVars, vcVars, agVars, fptVars, wallVars, beltVars, gcVars, rqVars, bootVars>>

nonGc == <<satVars, ssVars, railVars, spVars, swVars, cvVars, rgVars, vcVars, agVars, fptVars, wallVars, beltVars, redVars, rqVars, bootVars>>

nonRq == <<satVars, ssVars, railVars, spVars, swVars, cvVars, rgVars, vcVars, agVars, fptVars, wallVars, beltVars, redVars, gcVars, bootVars>>

nonBoot == <<satVars, ssVars, railVars, spVars, swVars, cvVars, rgVars, vcVars, agVars, fptVars, wallVars, beltVars, redVars, gcVars, rqVars>>

-----------------------------------------------------------------------------
(* Bounds of the model *)

\* most node clicks on a graph of the coloring corner between two resets
MaxClicks == 2

\* most questions the reduction quiz displays
MaxQuestions == 8

\* most option clicks on one question of the reduction quiz
MaxOptionClicks == 3

\* most problems placed on the belt of the reduction conveyor
MaxBelt == 3

\* largest value of the slider #sw-n of the scaling wall
MaxWallN == 2

\* most runs plotted on the scaling wall
MaxRuns == 1

\* largest value of the sliders #fpt-n and #fpt-k of the parameterized nook
MaxN == 4

\* largest value of the size slider #ag-size tried for a graph
MaxSize == 5

\* largest value of the size slider #ag-size tried for a set cover instance
MaxUniverse == 3

\* most edges typed into the edge list of the CLIQUE to Vertex Cover checker
MaxEdges == 3

\* most clicks counted by a counter of the page
MaxCount == 2

\* longest input typed character by character
MaxChars == 3
\* longest input built from whole lexemes
MaxLex == 5
\* most numbers in a subset-sum instance
MaxNums == 3

-----------------------------------------------------------------------------
(* Characters and inputs *)

Chars == {"(", ")", "!", "&", "|", "x", "1", "2", " "}

Lexemes == {<<"(">>, <<")">>, <<"!">>, <<"&">>, <<"|">>, <<"x", "1">>, <<"x", "2">>}

SeqsUpTo(S, n) == UNION {[1..k -> S] : k \in 0..n}

RECURSIVE Flatten(_)
Flatten(ss) == IF ss = <<>> THEN <<>> ELSE Head(ss) \o Flatten(Tail(ss))

Inputs == SeqsUpTo(Chars, MaxChars) \cup {Flatten(l) : l \in SeqsUpTo(Lexemes, MaxLex)}

-----------------------------------------------------------------------------
(* SAT playground: tokenizer, shunting-yard, postfix evaluation *)

MAX_VARS == 9

\* textContent = '' of the error line
NoError == [msg |-> ""]

IsDigit19(c) == c \in {"1", "2", "3", "4", "5", "6", "7", "8", "9"}

DigitVal(c) ==
  CASE c = "1" -> 1 [] c = "2" -> 2 [] c = "3" -> 3 [] c = "4" -> 4 [] c = "5" -> 5
    [] c = "6" -> 6 [] c = "7" -> 7 [] c = "8" -> 8 [] c = "9" -> 9

\* expr.replace(/\s+/g, '')
StripWS(expr) == SelectSeq(expr, LAMBDA c : c # " ")

\* the loop of tokenize over src from 1-based index i; positions in errors are 0-based
RECURSIVE TokenizeFrom(_, _, _)
TokenizeFrom(src, i, tokens) ==
  IF i > Len(src) THEN [ok |-> TRUE, tokens |-> tokens]
  ELSE LET c == src[i] IN
    CASE c = "(" -> TokenizeFrom(src, i + 1, Append(tokens, [t |-> "LP"]))
      [] c = ")" -> TokenizeFrom(src, i + 1, Append(tokens, [t |-> "RP"]))
      [] c = "!" -> TokenizeFrom(src, i + 1, Append(tokens, [t |-> "NOT"]))
      [] c = "&" -> TokenizeFrom(src, i + 1, Append(tokens, [t |-> "AND"]))
      [] c = "|" -> TokenizeFrom(src, i + 1, Append(tokens, [t |-> "OR"]))
      [] c = "x" ->
           IF i + 1 <= Len(src) /\ IsDigit19(src[i + 1])
           THEN TokenizeFrom(src, i + 2,
                             Append(tokens, [t |-> "VAR", v |-> DigitVal(src[i + 1])]))
           ELSE [ok |-> FALSE,
                 err |-> [msg |-> "Invalid variable near position", pos |-> i - 1]]
      [] OTHER -> [ok |-> FALSE,
                   err |-> [msg |-> "Unexpected character", ch |-> c, pos |-> i - 1]]

tokenize(expr) == TokenizeFrom(StripWS(expr), 1, <<>>)

\* PREC with AND no tighter than OR
PREC_AndAsOr(t) == CASE t = "NOT" -> 3 [] t = "AND" -> 1 [] t = "OR" -> 1 [] OTHER -> 0

PREC(t) == CASE t = "NOT" -> 3 [] t = "AND" -> 2 [] t = "OR" -> 1 [] OTHER -> 0

RIGHT_ASSOC(t) == t = "NOT"

\* the inner while loop of toRPN for an operator token tk: pops op onto out
RECURSIVE PopOps(_, _, _)
PopOps(tk, out, op) ==
  IF op = <<>> THEN [out |-> out, op |-> op]
  ELSE LET top == op[Len(op)] IN
    IF top.t = "LP" THEN [out |-> out, op |-> op]
    ELSE LET pTop == PREC(top.t)
             pTk == PREC(tk.t)
         IN IF (RIGHT_ASSOC(tk.t) /\ pTk < pTop) \/ (~RIGHT_ASSOC(tk.t) /\ pTk <= pTop)
            THEN PopOps(tk, Append(out, top), SubSeq(op, 1, Len(op) - 1))
            ELSE [out |-> out, op |-> op]

\* the while loop of toRPN for a right parenthesis: pops until the matching LP
RECURSIVE PopToLP(_, _)
PopToLP(out, op) ==
  IF op = <<>> THEN [found |-> FALSE, out |-> out, op |-> op]
  ELSE LET top == op[Len(op)]
           rest == SubSeq(op, 1, Len(op) - 1)
       IN IF top.t = "LP" THEN [found |-> TRUE, out |-> out, op |-> rest]
          ELSE PopToLP(Append(out, top), rest)

\* the final while loop of toRPN: drains op, failing on a parenthesis left on it
RECURSIVE DrainOps(_, _)
DrainOps(out, op) ==
  IF op = <<>> THEN [ok |-> TRUE, rpn |-> out]
  ELSE LET top == op[Len(op)] IN
    IF top.t = "LP" \/ top.t = "RP"
    THEN [ok |-> FALSE, err |-> [msg |-> "Unbalanced parentheses"]]
    ELSE DrainOps(Append(out, top), SubSeq(op, 1, Len(op) - 1))

RECURSIVE ToRPNFrom(_, _, _, _)
ToRPNFrom(tokens, k, out, op) ==
  IF k > Len(tokens) THEN DrainOps(out, op)
  ELSE LET tk == tokens[k] IN
    IF tk.t = "VAR" THEN ToRPNFrom(tokens, k + 1, Append(out, tk), op)
    ELSE IF tk.t \in {"NOT", "AND", "OR"}
    THEN LET r == PopOps(tk, out, op)
         IN ToRPNFrom(tokens, k + 1, r.out, Append(r.op, tk))
    ELSE IF tk.t = "LP" THEN ToRPNFrom(tokens, k + 1, out, Append(op, tk))
    ELSE \* RP
         LET r == PopToLP(out, op)
         IN IF ~r.found THEN [ok |-> FALSE, err |-> [msg |-> "Unbalanced parentheses"]]
            ELSE ToRPNFrom(tokens, k + 1, r.out, r.op)

toRPN(tokens) == ToRPNFrom(tokens, 1, <<>>, <<>>)

\* Boolean(env[name]): a name the environment lacks reads as undefined, hence false
EnvGet(env, v) == IF v \in DOMAIN env THEN env[v] ELSE FALSE

RECURSIVE EvalRPNFrom(_, _, _, _)
EvalRPNFrom(rpn, k, st, env) ==
  IF k > Len(rpn)
  THEN IF Len(st) # 1 THEN [ok |-> FALSE, err |-> [msg |-> "Parse error"]]
       ELSE [ok |-> TRUE, val |-> st[1]]
  ELSE LET tk == rpn[k] IN
    IF tk.t = "VAR" THEN EvalRPNFrom(rpn, k + 1, Append(st, EnvGet(env, tk.v)), env)
    ELSE IF tk.t = "NOT"
    THEN IF Len(st) = 0 THEN [ok |-> FALSE, err |-> [msg |-> "Parse error"]]
         ELSE EvalRPNFrom(rpn, k + 1,
                          Append(SubSeq(st, 1, Len(st) - 1), ~st[Len(st)]), env)
    ELSE IF tk.t = "AND" \/ tk.t = "OR"
    THEN IF Len(st) < 2 THEN [ok |-> FALSE, err |-> [msg |-> "Parse error"]]
         ELSE LET b == st[Len(st)]
                  a == st[Len(st) - 1]
                  r == IF tk.t = "AND" THEN a /\ b ELSE a \/ b
              IN EvalRPNFrom(rpn, k + 1, Append(SubSeq(st, 1, Len(st) - 2), r), env)
    ELSE [ok |-> FALSE, err |-> [msg |-> "Unknown token"]]

evalRPN(rpn, env) == EvalRPNFrom(rpn, 1, <<>>, env)

\* tokenize, toRPN and evalRPN in sequence, the first error thrown wins
Evaluate(expr, env) ==
  LET tk == tokenize(expr) IN
  IF ~tk.ok THEN tk
  ELSE LET rp == toRPN(tk.tokens) IN
       IF ~rp.ok THEN rp ELSE evalRPN(rp.rpn, env)

\* the matches of /x([1-9])/g in the raw text, in order of first occurrence
RECURSIVE MatchVars(_, _, _)
MatchVars(expr, i, acc) ==
  IF i >= Len(expr) THEN acc
  ELSE IF expr[i] = "x" /\ IsDigit19(expr[i + 1])
       THEN LET v == DigitVal(expr[i + 1])
            IN MatchVars(expr, i + 2,
                         IF \E j \in 1..Len(acc) : acc[j] = v THEN acc ELSE Append(acc, v))
       ELSE MatchVars(expr, i + 1, acc)

\* Array.sort by variable index
RECURSIVE SortNames(_)
SortNames(s) ==
  IF s = <<>> THEN <<>>
  ELSE LET m == CHOOSE j \in 1..Len(s) : \A k \in 1..Len(s) : s[j] <= s[k]
       IN <<s[m]>> \o SortNames(SubSeq(s, 1, m - 1) \o SubSeq(s, m + 1, Len(s)))

extractVars(expr) == SortNames(MatchVars(expr, 1, <<>>))

\* names.slice(0, MAX_VARS)
SliceVars(names) == SubSeq(names, 1, IF Len(names) < MAX_VARS THEN Len(names) ELSE MAX_VARS)

RECURSIVE Pow2(_)
Pow2(n) == IF n = 0 THEN 1 ELSE 2 * Pow2(n - 1)

\* !!(mask & (1 << i)), i counted from 0
Bit(mask, i) == (mask \div Pow2(i)) % 2 = 1

\* env[names[i]] = !!(mask & (1 << i)) for i in 0..n-1
EnvOfMask(names, mask) ==
  [v \in {names[j] : j \in 1..Len(names)} |->
     Bit(mask, (CHOOSE j \in 1..Len(names) : names[j] = v) - 1)]

\* the for loop of the Solve handler from mask on
RECURSIVE SolveLoop(_, _, _, _, _, _)
SolveLoop(rpn, names, mask, limit, checked, tried) ==
  IF mask >= limit THEN [ok |-> TRUE, found |-> FALSE, checked |-> checked, tried |-> tried]
  ELSE LET env == EnvOfMask(names, mask)
           r == evalRPN(rpn, env)
       IN IF ~r.ok THEN r
          ELSE IF r.val
          THEN [ok |-> TRUE, found |-> TRUE, env |-> env, checked |-> checked + 1,
                tried |-> Append(tried, mask)]
          ELSE SolveLoop(rpn, names, mask + 1, limit, checked + 1, Append(tried, mask))

\* the body of the try block of the Solve handler
BruteForce(expr) ==
  LET tk == tokenize(expr) IN
  IF ~tk.ok THEN tk
  ELSE LET rp == toRPN(tk.tokens) IN
       IF ~rp.ok THEN rp
       ELSE LET names == SliceVars(extractVars(expr))
                n == Len(names)
            IN IF n = 0 THEN [ok |-> FALSE, err |-> [msg |-> "No variables found"]]
               ELSE SolveLoop(rp.rpn, names, 0, Pow2(IF n < 20 THEN n ELSE 20), 0, <<>>)

-----------------------------------------------------------------------------
(* SAT playground: state and handlers *)

\* renderVarToggles: one button per name, all off
FreshToggles(expr) ==
  LET names == extractVars(expr)
  IN [v \in {names[j] : j \in 1..Len(names)} |-> FALSE]

\* click on a toggle button
SatToggle ==
  \E v \in DOMAIN toggles :
    /\ toggles' = [toggles EXCEPT ![v] = ~toggles[v]]
    /\ UNCHANGED <<cnfInput, resultEl, errorEl, witnessEl, metricsEl, lastOp, triedLog>>
    /\ UNCHANGED nonSat

\* click on #sat-check
SatCheck ==
  LET r == Evaluate(cnfInput, toggles) IN
  /\ witnessEl' = <<>>
  /\ metricsEl' = 0
  /\ IF r.ok
     THEN /\ errorEl' = NoError
          /\ resultEl' = IF r.val THEN "Satisfies (under current assignment)"
                                  ELSE "Does NOT satisfy"
     ELSE /\ errorEl' = r.err
          /\ resultEl' = "-"
  /\ lastOp' = "check"
  /\ triedLog' = <<>>
  /\ UNCHANGED <<cnfInput, toggles>>
  /\ UNCHANGED nonSat

\* click on #sat-solve
SatSolve ==
  LET r == BruteForce(cnfInput) IN
  /\ IF r.ok
     THEN /\ errorEl' = NoError
          /\ resultEl' = IF r.found THEN "SAT (found assignment)"
                                    ELSE "UNSAT (under brute-force search)"
          /\ witnessEl' = IF r.found THEN r.env ELSE <<>>
          /\ metricsEl' = r.checked
          /\ triedLog' = r.tried
     ELSE /\ errorEl' = r.err
          /\ resultEl' = "-"
          /\ witnessEl' = <<>>
          /\ metricsEl' = 0
          /\ triedLog' = <<>>
  /\ lastOp' = "solve"
  /\ UNCHANGED <<cnfInput, toggles>>
  /\ UNCHANGED nonSat

SatNext == SatToggle \/ SatCheck \/ SatSolve

-----------------------------------------------------------------------------
(* Subset sum: backtrack and the click handler of #ss-check (docs/script.js) *)

MAX_N == 20

\* null, and a value that is not null
Null == [isNull |-> TRUE, v |-> <<>>]

Some(x) == [isNull |-> FALSE, v |-> x]

\* the numbers and targets tried
NumValues == {-2, 1, 2, 3}

Targets == {-2, 0, 1, 3, 4, 7}

SsInputs == SeqsUpTo(NumValues, MaxNums)

Abs(v) == IF v < 0 THEN -v ELSE v

\* the comparator of the sort, with the stability of Array.prototype.sort: the
\* entry {v: nums[a], i: a} comes before {v: nums[b], i: b}
Before_Ascending(nums, a, b) ==
  \/ Abs(nums[a]) < Abs(nums[b])
  \/ Abs(nums[a]) = Abs(nums[b]) /\ a < b

Before(nums, a, b) ==
  \/ Abs(nums[a]) > Abs(nums[b])
  \/ Abs(nums[a]) = Abs(nums[b]) /\ a < b

\* order.map(o => o.i): the positions of nums in sorted order (positions from 1)
RECURSIVE SortedIdxs(_, _)
SortedIdxs(nums, rest) ==
  IF rest = {} THEN <<>>
  ELSE LET a == CHOOSE x \in rest : \A y \in rest \ {x} : Before(nums, x, y)
       IN <<a>> \o SortedIdxs(nums, rest \ {a})

idxs(nums) == SortedIdxs(nums, 1..Len(nums))

\* order.map(o => o.v)
vals(nums) == [k \in 1..Len(nums) |-> nums[idxs(nums)[k]]]

\* best.map(j => nums[j])
SubsetOf(nums, best) == [k \in 1..Len(best.v) |-> nums[best.v[k]]]

RECURSIVE SumSeq(_)
SumSeq(s) == IF s = <<>> THEN 0 ELSE Head(s) + SumSeq(Tail(s))

SsTop == ssStack[Len(ssStack)]

SsPop == SubSeq(ssStack, 1, Len(ssStack) - 1)

SsSetTop(pc) == [ssStack EXCEPT ![Len(ssStack)].pc = pc]

NoAfter == [frames |-> 0, calls |-> 0, pushes |-> 0]

NoPrev == [kind |-> "none"]

SsBlank ==
  /\ ssPc = "idle"
  /\ ssStack = <<>>
  /\ ssTake = <<>>
  /\ ssBest = Null
  /\ ssRet = FALSE
  /\ ssExpired = FALSE
  /\ ssResult = Null
  /\ ssMessage = ""
  /\ ssTimedOut = FALSE
  /\ ssAfter = NoAfter
  /\ ssPrev = NoPrev

SsInit ==
  /\ ssNums \in SsInputs
  /\ ssTarget \in Targets
  /\ SsBlank

\* how the search that just ended is remembered: aborted by the cap, exhausted
\* without a subset, or ended with a subset
SsOutcome ==
  [kind |-> IF ssResult # Null THEN "found"
            ELSE IF ssTimedOut THEN "aborted" ELSE "exhausted",
   result |-> ssResult, message |-> ssMessage]

\* click on #ss-check: the handler up to the first call dfs(0, 0, [])
SsClick ==
  /\ ssPc \in {"idle", "done"}
  /\ Len(ssNums) <= MAX_N
  /\ ssPrev' = IF ssPc = "done" THEN SsOutcome ELSE ssPrev
  /\ ssPc' = "run"
  /\ ssStack' = <<[i |-> 0, sum |-> 0, pc |-> "entry"]>>
  /\ ssTake' = <<>>
  /\ ssBest' = Null
  /\ ssRet' = FALSE
  /\ ssExpired' = FALSE
  /\ ssResult' = Null
  /\ ssMessage' = ""
  /\ ssTimedOut' = FALSE
  /\ ssAfter' = NoAfter
  /\ UNCHANGED <<ssNums, ssTarget>>
  /\ UNCHANGED nonSs

\* the wall clock passes the cap while the search runs
SsTick ==
  /\ ssPc = "run"
  /\ ~ssExpired
  /\ ssExpired' = TRUE
  /\ UNCHANGED <<ssNums, ssTarget, ssPc, ssStack, ssTake, ssBest, ssRet, ssResult,
                 ssMessage, ssTimedOut, ssAfter, ssPrev>>
  /\ UNCHANGED nonSs

\* the time cap test on entry of a dfs call on frame f
CapSeen_LeafOnly(f) == ssExpired /\ f.i >= Len(ssNums)

CapSeen(f) == ssExpired

\* a dfs call returns r to its caller
SsReturn(r) ==
  /\ ssStack' = SsPop
  /\ ssRet' = r

\* entry of a dfs call: the cap, the sum test, the end of the numbers, else the
\* take branch
SsEnter ==
  /\ ssPc = "run"
  /\ ssStack # <<>>
  /\ SsTop.pc = "entry"
  /\ LET f == SsTop
         counted == IF ssTimedOut THEN [ssAfter EXCEPT !.calls = @ + 1] ELSE ssAfter
     IN IF CapSeen(f)
        THEN /\ SsReturn(FALSE)
             /\ ssTimedOut' = TRUE
             /\ ssAfter' = IF ssTimedOut THEN counted
                           ELSE [frames |-> Len(ssStack) - 1, calls |-> 0, pushes |-> 0]
             /\ UNCHANGED <<ssTake, ssBest>>
        ELSE IF f.sum = ssTarget
        THEN /\ SsReturn(TRUE)
             /\ ssBest' = Some(ssTake)
             /\ ssAfter' = counted
             /\ UNCHANGED <<ssTake, ssTimedOut>>
        ELSE IF f.i >= Len(ssNums)
        THEN /\ SsReturn(FALSE)
             /\ ssAfter' = counted
             /\ UNCHANGED <<ssTake, ssBest, ssTimedOut>>
        ELSE /\ ssTake' = Append(ssTake, idxs(ssNums)[f.i + 1])
             /\ ssStack' = Append(SsSetTop("took"),
                                  [i |-> f.i + 1, sum |-> f.sum + vals(ssNums)[f.i + 1],
                                   pc |-> "entry"])
             /\ ssAfter' = IF ssTimedOut THEN [counted EXCEPT !.pushes = @ + 1]
                           ELSE counted
             /\ UNCHANGED <<ssBest, ssRet, ssTimedOut>>
  /\ UNCHANGED <<ssNums, ssTarget, ssPc, ssExpired, ssResult, ssMessage, ssPrev>>
  /\ UNCHANGED nonSs

\* the take branch returned: pass true up, else take.pop() and the skip branch
SsAfterTake_NoPop ==
  /\ ssPc = "run"
  /\ ssStack # <<>>
  /\ SsTop.pc = "took"
  /\ IF ssRet
     THEN /\ SsReturn(TRUE)
          /\ UNCHANGED ssTake
     ELSE /\ ssTake' = ssTake
          /\ ssStack' = Append(SsSetTop("skipped"),
                               [i |-> SsTop.i + 1, sum |-> SsTop.sum, pc |-> "entry"])
          /\ UNCHANGED ssRet
  /\ UNCHANGED <<ssNums, ssTarget, ssPc, ssBest, ssExpired, ssResult, ssMessage,
                 ssTimedOut, ssAfter, ssPrev>>
  /\ UNCHANGED nonSs

SsAfterTake ==
  /\ ssPc = "run"
  /\ ssStack # <<>>
  /\ SsTop.pc = "took"
  /\ IF ssRet
     THEN /\ SsReturn(TRUE)
          /\ UNCHANGED ssTake
     ELSE /\ ssTake' = SubSeq(ssTake, 1, Len(ssTake) - 1)
          /\ ssStack' = Append(SsSetTop("skipped"),
                               [i |-> SsTop.i + 1, sum |-> SsTop.sum, pc |-> "entry"])
          /\ UNCHANGED ssRet
  /\ UNCHANGED <<ssNums, ssTarget, ssPc, ssBest, ssExpired, ssResult, ssMessage,
                 ssTimedOut, ssAfter, ssPrev>>
  /\ UNCHANGED nonSs

\* the skip branch returned: pass its value up
SsAfterSkip_GiveUp ==
  /\ ssPc = "run"
  /\ ssStack # <<>>
  /\ SsTop.pc = "skipped"
  /\ SsReturn(FALSE)
  /\ UNCHANGED <<ssNums, ssTarget, ssPc, ssTake, ssBest, ssExpired, ssResult, ssMessage,
                 ssTimedOut, ssAfter, ssPrev>>
  /\ UNCHANGED nonSs

SsAfterSkip ==
  /\ ssPc = "run"
  /\ ssStack # <<>>
  /\ SsTop.pc = "skipped"
  /\ SsReturn(ssRet)
  /\ UNCHANGED <<ssNums, ssTarget, ssPc, ssTake, ssBest, ssExpired, ssResult, ssMessage,
                 ssTimedOut, ssAfter, ssPrev>>
  /\ UNCHANGED nonSs

\* dfs(0, 0, []) returned: backtrack returns null or the subset, the handler shows it
SsFinish ==
  /\ ssPc = "run"
  /\ ssStack = <<>>
  /\ ssPc' = "done"
  /\ ssResult' = IF ~ssRet THEN Null ELSE Some(SubsetOf(ssNums, ssBest))
  /\ ssMessage' = IF ssResult' # Null THEN "Subset found!"
                  ELSE "No subset found (within demo limits)"
  /\ UNCHANGED <<ssNums, ssTarget, ssStack, ssTake, ssBest, ssRet, ssExpired, ssTimedOut,
                 ssAfter, ssPrev>>
  /\ UNCHANGED nonSs

SsStep == SsTick \/ SsEnter \/ SsAfterTake \/ SsAfterSkip \/ SsFinish

\* one search per behaviour
SsFirstClick == ssPc = "idle" /\ SsClick

\* dfs without its skip branch
RECURSIVE DfsFn_TakeOnly(_, _, _, _, _)
DfsFn_TakeOnly(nums, target, i, sum, take) ==
  IF sum = target THEN Some(take)
  ELSE IF i >= Len(nums) THEN Null
  ELSE DfsFn_TakeOnly(nums, target, i + 1, sum + vals(nums)[i + 1],
                      Append(take, idxs(nums)[i + 1]))

\* dfs as a function, for a clock that never passes the cap: Null for false,
\* else the copy of take stored in best
RECURSIVE DfsFn(_, _, _, _, _)
DfsFn(nums, target, i, sum, take) ==
  IF sum = target THEN Some(take)
  ELSE IF i >= Len(nums) THEN Null
  ELSE LET t == DfsFn(nums, target, i + 1, sum + vals(nums)[i + 1],
                      Append(take, idxs(nums)[i + 1]))
       IN IF t # Null THEN t ELSE DfsFn(nums, target, i + 1, sum, take)

\* backtrack(nums, target) for a clock that never passes the cap
BacktrackFn(nums, target) ==
  LET best == DfsFn(nums, target, 0, 0, <<>>)
  IN IF best = Null THEN Null ELSE Some(SubsetOf(nums, best))

-----------------------------------------------------------------------------
(* Subset-sum rail: initSubsetSum of docs/script.remade.js *)

SubsetPRESETS ==
  <<[id |-> "partition", nums |-> <<3, 1, 1, 2, 2, 1>>, target |-> 5, expect |-> "SAT"],
    [id |-> "tricky", nums |-> <<3, 34, 4, 12, 5, 2>>, target |-> 9, expect |-> "SAT"],
    [id |-> "nosol", nums |-> <<5, 7, 11>>, target |-> 3, expect |-> "UNSAT"],
    [id |-> "tight", nums |-> <<8, 6, 2, 4>>, target |-> 14, expect |-> "SAT"]>>

BlankWitness == [kind |-> "blank", subset |-> <<>>, sum |-> 0, expect |-> ""]

\* loadPreset of the subset-sum rail for preset p
SpLoadPreset(p) ==
  /\ spCurrent' = p
  /\ spRes' = ""
  /\ spWitness' = BlankWitness

\* the subset-sum rail after initSubsetSum: renderPresets(), loadPreset()
SpInit ==
  /\ spCurrent = 1
  /\ spRes = ""
  /\ spWitness = BlankWitness
  /\ spOp = "init"
  /\ spTimedOut = FALSE

\* backtrack(nums, target, maxMs): the search of the rail is the dfs of the
\* playground with its own cap; a dfs call that sees the cap exceeded returns
\* false and so does every caller, so an expired search returns null
SpBacktrack(nums, target, expired) ==
  IF expired THEN Null ELSE BacktrackFn(nums, target)

\* click on a preset chip of the subset-sum rail
SpPreset ==
  \E p \in 1..Len(SubsetPRESETS) :
    /\ SpLoadPreset(p)
    /\ spOp' = "preset"
    /\ UNCHANGED spTimedOut
    /\ UNCHANGED nonSp

\* click on #ss-check of the rail, cap 700 ms
SpCheck ==
  \E expired \in BOOLEAN :
    LET cur == SubsetPRESETS[spCurrent]
        subset == SpBacktrack(cur.nums, cur.target, expired)
    IN /\ IF subset # Null
          THEN /\ spRes' = "Subset found"
               /\ spWitness' = [kind |-> "subset", subset |-> subset.v,
                                sum |-> SumSeq(subset.v), expect |-> cur.expect]
          ELSE /\ spRes' = "No subset (within demo search)"
               /\ spWitness' = [kind |-> "none", subset |-> <<>>, sum |-> 0,
                                expect |-> cur.expect]
       /\ spOp' = "check"
       /\ spTimedOut' = expired
       /\ UNCHANGED spCurrent
       /\ UNCHANGED nonSp

\* click on #ss-reveal of the rail, cap 1200 ms
SpReveal ==
  \E expired \in BOOLEAN :
    LET cur == SubsetPRESETS[spCurrent]
        subset == SpBacktrack(cur.nums, cur.target, expired)
    IN /\ IF subset # Null
          THEN /\ spRes' = "SAT (witness shown)"
               /\ spWitness' = [kind |-> "subset", subset |-> subset.v, sum |-> 0,
                                expect |-> ""]
          ELSE /\ spRes' = "UNSAT in window"
               /\ spWitness' = [kind |-> "none", subset |-> <<>>, sum |-> 0,
                                expect |-> ""]
       /\ spOp' = "reveal"
       /\ spTimedOut' = expired
       /\ UNCHANGED spCurrent
       /\ UNCHANGED nonSp

-----------------------------------------------------------------------------
(* SAT rail: initSAT of docs/script.remade.js *)

\* (x1 | x2) & (!x1 | x3)
Formula_easy ==
  <<"(", "x", "1", " ", "|", " ", "x", "2", ")", " ", "&", " ", "(", "!",
    "x", "1", " ", "|", " ", "x", "3", ")">>

\* (x1 | !x2 | x3) & (!x1 | x2 | x3) & (x2 | !x3)
Formula_tricky ==
  <<"(", "x", "1", " ", "|", " ", "!", "x", "2", " ", "|", " ", "x", "3",
    ")", " ", "&", " ", "(", "!", "x", "1", " ", "|", " ", "x", "2", " ",
    "|", " ", "x", "3", ")", " ", "&", " ", "(", "x", "2", " ", "|", " ",
    "!", "x", "3", ")">>

\* (x1) & (!x1)
Formula_unsat ==
  <<"(", "x", "1", ")", " ", "&", " ", "(", "!", "x", "1", ")">>

\* (x1 | x2) & (x2 | x3)
Formula_custom ==
  <<"(", "x", "1", " ", "|", " ", "x", "2", ")", " ", "&", " ", "(", "x",
    "2", " ", "|", " ", "x", "3", ")">>

PRESETS ==
  <<[id |-> "easy", formula |-> Formula_easy, expect |-> "SAT"],
    [id |-> "tricky", formula |-> Formula_tricky, expect |-> "SAT"],
    [id |-> "unsat", formula |-> Formula_unsat, expect |-> "UNSAT"],
    [id |-> "custom", formula |-> Formula_custom, expect |-> "SAT"]>>

\* s.trim()
RECURSIVE TrimLeft(_)
TrimLeft(t) == IF t # <<>> /\ Head(t) = " " THEN TrimLeft(Tail(t)) ELSE t

RECURSIVE TrimRight(_)
TrimRight(t) ==
  IF t # <<>> /\ t[Len(t)] = " " THEN TrimRight(SubSeq(t, 1, Len(t) - 1)) ELSE t

Trim(t) == TrimRight(TrimLeft(t))

\* expr.split('&')
RECURSIVE SplitAmp(_, _, _)
SplitAmp(expr, i, cur) ==
  IF i > Len(expr) THEN <<cur>>
  ELSE IF expr[i] = "&" THEN <<cur>> \o SplitAmp(expr, i + 1, <<>>)
  ELSE SplitAmp(expr, i + 1, Append(cur, expr[i]))

\* expr.split('&').map(x => x.trim()).filter(Boolean)
clauseList(expr) ==
  LET parts == SplitAmp(expr, 1, <<>>)
      trimmed == [k \in 1..Len(parts) |-> Trim(parts[k])]
  IN SelectSeq(trimmed, LAMBDA c : c # <<>>)

\* the lights as they are with every toggle off
ClauseLights_TogglesOff(formula, env) ==
  LET clauses == clauseList(formula)
  IN [k \in 1..Len(clauses) |-> Evaluate(clauses[k], [v \in DOMAIN env |-> FALSE]).val]

\* updateClauseLights: one light per clause, on when the clause is true under env
ClauseLights(formula, env) ==
  LET clauses == clauseList(formula)
  IN [k \in 1..Len(clauses) |-> Evaluate(clauses[k], env).val]

\* extractVars of the rail: the sorted names, at most nine
RailVarsOf(formula) == SubSeq(extractVars(formula), 1,
                              IF Len(extractVars(formula)) < 9 THEN Len(extractVars(formula))
                              ELSE 9)

BlankMetrics == [kind |-> "blank", witness |-> <<>>, checked |-> 0, lit |-> 0, total |-> 0]

\* no Solve is remembered yet
NoFirst == [seen |-> FALSE, preset |-> 0, before |-> <<>>, shown |-> BlankMetrics,
            res |-> ""]

\* loadPreset for preset p
LoadPreset(p) ==
  LET names == RailVarsOf(PRESETS[p].formula)
      fresh == [v \in {names[j] : j \in 1..Len(names)} |-> FALSE]
  IN /\ current' = p
     /\ railToggles' = fresh
     /\ railRes' = ""
     /\ railMetrics' = BlankMetrics
     /\ railLights' = ClauseLights(PRESETS[p].formula, fresh)

\* the rail after initSAT: renderPresets(), loadPreset() with current = PRESETS[0]
RailInit ==
  LET names == RailVarsOf(PRESETS[1].formula)
      fresh == [v \in {names[j] : j \in 1..Len(names)} |-> FALSE]
  IN /\ current = 1
     /\ railToggles = fresh
     /\ railRes = ""
     /\ railMetrics = BlankMetrics
     /\ railLights = ClauseLights(PRESETS[1].formula, fresh)
     /\ railOp = "init"
     /\ railFirst = NoFirst

\* click on a preset chip
RailPreset ==
  \E p \in 1..Len(PRESETS) :
    /\ LoadPreset(p)
    /\ railOp' = "preset"
    /\ UNCHANGED railFirst
    /\ UNCHANGED nonRail

\* click on #reset-verify: the listener of the SAT rail and the listener of
\* the subset-sum rail both run
RailReset ==
  /\ LoadPreset(1)
  /\ railOp' = "reset"
  /\ UNCHANGED railFirst
  /\ SpLoadPreset(1)
  /\ spOp' = "reset"
  /\ UNCHANGED spTimedOut
  /\ UNCHANGED nonVerify

\* click on a toggle of the rail
RailToggle ==
  \E v \in DOMAIN railToggles :
    /\ railToggles' = [railToggles EXCEPT ![v] = ~railToggles[v]]
    /\ railLights' = ClauseLights(PRESETS[current].formula, railToggles')
    /\ railOp' = "toggle"
    /\ UNCHANGED <<current, railRes, railMetrics, railFirst>>
    /\ UNCHANGED nonRail

\* click on #sat-check of the rail
RailCheck ==
  LET r == Evaluate(PRESETS[current].formula, railToggles) IN
  /\ IF r.ok
     THEN /\ railRes' = IF r.val THEN "Satisfies under this assignment"
                                 ELSE "Does NOT satisfy"
          /\ railMetrics' = [kind |-> "check", witness |-> <<>>, checked |-> 0,
                             lit |-> Len(SelectSeq(railLights, LAMBDA b : b)),
                             total |-> Len(railLights)]
     ELSE /\ railRes' = r.err.msg
          /\ UNCHANGED railMetrics
  /\ railOp' = "check"
  /\ UNCHANGED <<current, railToggles, railLights, railFirst>>
  /\ UNCHANGED nonRail

\* the try block of the Solve handler of the rail up to the end of its loop, the
\* counter checked starting from checked0
RailSearch(formula, checked0) ==
  LET names == RailVarsOf(formula)
      n == Len(names)
  IN IF n = 0 THEN [ok |-> FALSE, err |-> [msg |-> "No variables"]]
     ELSE LET tk == tokenize(formula) IN
          IF ~tk.ok THEN tk
          ELSE LET rp == toRPN(tk.tokens) IN
               IF ~rp.ok THEN rp
               ELSE SolveLoop(rp.rpn, names, 0, Pow2(IF n < 12 THEN n ELSE 12),
                              checked0, <<>>)

\* let found = null, checked = 0
RailSolveResult_KeepsCount == RailSearch(PRESETS[current].formula, railMetrics.checked)

RailSolveResult == RailSearch(PRESETS[current].formula, 0)

\* click on #sat-solve of the rail
RailSolve ==
  LET r == RailSolveResult IN
  /\ IF ~r.ok
     THEN /\ railRes' = r.err.msg
          /\ UNCHANGED <<railMetrics, railToggles, railLights>>
     ELSE IF r.found
     THEN /\ railRes' = "SAT (witness below)"
          /\ railMetrics' = [kind |-> "sat", witness |-> r.env, checked |-> r.checked,
                             lit |-> 0, total |-> 0]
          /\ railToggles' = [v \in DOMAIN railToggles |-> r.env[v]]
          /\ railLights' = ClauseLights(PRESETS[current].formula, railToggles')
     ELSE /\ railRes' = "UNSAT under brute force"
          /\ railMetrics' = [kind |-> "unsat", witness |-> <<>>, checked |-> r.checked,
                             lit |-> 0, total |-> 0]
          /\ UNCHANGED <<railToggles, railLights>>
  /\ railOp' = "solve"
  /\ \/ UNCHANGED railFirst
     \/ /\ ~railFirst.seen
        /\ railFirst' = [seen |-> TRUE, preset |-> current, before |-> railToggles,
                         shown |-> railMetrics', res |-> railRes']
  /\ UNCHANGED current
  /\ UNCHANGED nonRail

RailNext == RailPreset \/ RailReset \/ RailToggle \/ RailCheck \/ RailSolve

-----------------------------------------------------------------------------
(* SearchSpace: the n! widget.  A JavaScript number holds every integer up  *)
(* to 2^53 exactly; the numbers here pass 2^31, so a number is a sequence   *)
(* of limbs in base 1000, least significant first, without leading zeros.   *)

Base == 1000

RECURSIVE Strip(_)
Strip(a) == IF a # <<>> /\ a[Len(a)] = 0 THEN Strip(SubSeq(a, 1, Len(a) - 1)) ELSE a

RECURSIVE BigOf(_)
BigOf(k) == IF k = 0 THEN <<>> ELSE <<k % Base>> \o BigOf(k \div Base)

\* a * k for a small k, exactly
RECURSIVE MulCarry(_, _, _)
MulCarry(a, k, carry) ==
  IF a = <<>> THEN BigOf(carry)
  ELSE LET t == Head(a) * k + carry
       IN <<t % Base>> \o MulCarry(Tail(a), k, t \div Base)

BigMul(a, k) == Strip(MulCarry(a, k, 0))

\* a + b, exactly
RECURSIVE AddCarry(_, _, _)
AddCarry(a, b, carry) ==
  IF a = <<>> /\ b = <<>> THEN BigOf(carry)
  ELSE LET x == IF a = <<>> THEN 0 ELSE Head(a)
           y == IF b = <<>> THEN 0 ELSE Head(b)
           t == x + y + carry
       IN <<t % Base>> \o AddCarry(IF a = <<>> THEN a ELSE Tail(a),
                                   IF b = <<>> THEN b ELSE Tail(b), t \div Base)

BigAdd(a, b) == Strip(AddCarry(a, b, 0))

\* floor(a / k) for a small k, by long division from the top limb
RECURSIVE DivFrom(_, _, _, _)
DivFrom(a, k, j, rem) ==
  IF j = 0 THEN <<>>
  ELSE LET t == rem * Base + a[j]
       IN Append(DivFrom(a, k, j - 1, t % k), t \div k)

BigDiv(a, k) == Strip(DivFrom(a, k, Len(a), 0))

RECURSIVE LessFrom(_, _, _)
LessFrom(a, b, j) ==
  IF j = 0 THEN FALSE
  ELSE IF a[j] # b[j] THEN a[j] < b[j]
  ELSE LessFrom(a, b, j - 1)

BigLess(a, b) ==
  IF Len(a) # Len(b) THEN Len(a) < Len(b) ELSE LessFrom(a, b, Len(a))

\* 2^53 = 9 007 199 254 740 992
TwoTo53 == <<992, 740, 254, 199, 7, 9>>

\* the value a number cannot hold exactly stands for its rounding
Inexact == <<Base>>

\* num * f in double arithmetic: exact up to 2^53
DoubleMul(num, f) ==
  LET p == BigMul(f, num)
  IN IF f = Inexact \/ BigLess(TwoTo53, p) THEN Inexact ELSE p

\* lo * (lo + 1) * ... * hi, exactly
RECURSIVE Product(_, _)
Product(lo, hi) == IF lo > hi THEN BigOf(1) ELSE BigMul(Product(lo + 1, hi), lo)

\* the other count the comment of the effect names: (n-1)! / 2
factorial_HalfOfPrev(num) == BigDiv(Product(1, num - 1), 2)

RECURSIVE factorial(_)
factorial(num) ==
  IF num <= 1 THEN BigOf(1) ELSE DoubleMul(num, factorial(num - 1))

\* the product of small factors
RECURSIVE ProdOf(_)
ProdOf(fs) == IF fs = <<>> THEN BigOf(1) ELSE BigMul(ProdOf(Tail(fs)), Head(fs))

RECURSIVE DivAll(_, _)
DivAll(a, fs) == IF fs = <<>> THEN a ELSE DivAll(BigDiv(a, Head(fs)), Tail(fs))

\* x.toFixed(digits) for x = p / ProdOf(fs): p / ProdOf(fs) rounded to the nearest integer
RoundDiv(p, fs) == DivAll(BigAdd(BigMul(p, 2), ProdOf(fs)), <<2>> \o fs)

\* formatTime(numPaths * 0.001): the argument is numPaths microseconds; the
\* unit chosen and the value shown, in tenths of the unit but for "ms"
formatTime(numPaths) ==
  IF BigLess(numPaths, ProdOf(<<1000, 1000>>))
  THEN [unit |-> "ms", shown |-> RoundDiv(numPaths, <<1000>>)]
  ELSE IF BigLess(numPaths, ProdOf(<<60, 1000, 1000>>))
  THEN [unit |-> "seconds", shown |-> RoundDiv(numPaths, <<100, 1000>>)]
  ELSE IF BigLess(numPaths, ProdOf(<<60, 60, 1000, 1000>>))
  THEN [unit |-> "minutes", shown |-> RoundDiv(numPaths, <<6, 1000, 1000>>)]
  ELSE IF BigLess(numPaths, ProdOf(<<24, 60, 60, 1000, 1000>>))
  THEN [unit |-> "hours", shown |-> RoundDiv(numPaths, <<360, 1000, 1000>>)]
  ELSE IF BigLess(numPaths, ProdOf(<<365, 24, 60, 60, 1000, 1000>>))
  THEN [unit |-> "days", shown |-> RoundDiv(numPaths, <<24, 360, 1000, 1000>>)]
  ELSE IF BigLess(numPaths, ProdOf(<<1000, 365, 24, 60, 60, 1000, 1000>>))
  THEN [unit |-> "years", shown |-> RoundDiv(numPaths, <<365, 24, 360, 1000, 1000>>)]
  ELSE [unit |-> "millennia",
        shown |-> RoundDiv(numPaths, <<1000, 365, 24, 360, 1000, 1000>>)]

SliderMin == 4

SliderMax == 14

\* SearchSpace as mounted: useState(4), useState(0), useState(''), useState(0),
\* the effect of the first render still to run
SwInit ==
  /\ swN = SliderMin
  /\ swPaths = BigOf(0)
  /\ swTime = [unit |-> "", shown |-> BigOf(0)]
  /\ swBarHeight = [logOf |-> BigOf(0), over |-> BigOf(1)]
  /\ swPending = TRUE

\* onChange of the slider: setN(parseInt(e.target.value)); a value equal to n
\* renders nothing and schedules no effect
SwSlide ==
  \E v \in SliderMin..SliderMax :
    /\ ~swPending
    /\ swN' = v
    /\ swPending' = (v # swN)
    /\ UNCHANGED <<swPaths, swTime, swBarHeight>>
    /\ UNCHANGED nonSw

\* the effect of [n]; barHeight is 100 * log10(logOf) / log10(over)
SwEffect ==
  /\ swPending
  /\ LET numPaths == factorial(swN) IN
       /\ swPaths' = numPaths
       /\ swTime' = formatTime(numPaths)
       /\ swBarHeight' = [logOf |-> numPaths, over |-> factorial(14)]
  /\ swPending' = FALSE
  /\ UNCHANGED swN
  /\ UNCHANGED nonSw

SwNext == SwSlide \/ SwEffect

-----------------------------------------------------------------------------
(* CheckVsFind and the Graph component it renders *)

nodes == 1..6

edges ==
  <<[source |-> 1, target |-> 2], [source |-> 1, target |-> 3],
    [source |-> 2, target |-> 4], [source |-> 2, target |-> 3],
    [source |-> 3, target |-> 5], [source |-> 4, target |-> 6],
    [source |-> 5, target |-> 6], [source |-> 4, target |-> 5],
    [source |-> 2, target |-> 5]>>

validPath == <<1, 2, 4, 6, 5, 3>>

\* edges.some(e => ...) for every pair: a node click adds whatever it is asked to
hasEdge_Always(lastNode, nodeId) == TRUE

\* edges.some(e => (e.source === lastNode && e.target === nodeId) ||
\*                 (e.source === nodeId && e.target === lastNode))
hasEdge(lastNode, nodeId) ==
  \E k \in 1..Len(edges) :
    \/ edges[k].source = lastNode /\ edges[k].target = nodeId
    \/ edges[k].source = nodeId /\ edges[k].target = lastNode

\* userPath.indexOf(nodeId), -1 when absent, counted from 0
indexOf(path, nodeId) ==
  IF \E k \in 1..Len(path) : path[k] = nodeId
  THEN (CHOOSE k \in 1..Len(path) :
          path[k] = nodeId /\ \A j \in 1..(k - 1) : path[j] # nodeId) - 1
  ELSE -1

\* the path handleNodeClick hands to onPathChange, or the path as it is when
\* the handler returns without calling it
handleNodeClick(path, interactive, nodeId) ==
  IF ~interactive THEN path
  ELSE LET index == indexOf(path, nodeId) IN
       IF index # -1 THEN SubSeq(path, 1, index + 1)
       ELSE IF Len(path) = 0 THEN <<nodeId>>
       ELSE IF hasEdge(path[Len(path)], nodeId) THEN Append(path, nodeId)
       ELSE path

\* CheckVsFind as mounted
CvInit ==
  /\ phase = "verify"
  /\ userPath = <<>>
  /\ checks = 0
  /\ attempts = 0
  /\ message = ""
  /\ status = "idle"
  /\ cvOp = "init"
  /\ cvClicked = 0
  /\ cvBefore = <<>>

\* click on Verify Path, disabled outside the verify phase
handleVerify ==
  /\ phase = "verify"
  /\ checks < MaxCount
  /\ checks' = checks + 1
  /\ message' = "Path verified in 3ms. Valid."
  /\ status' = "success"
  /\ cvOp' = "verify"
  /\ cvClicked' = 0
  /\ cvBefore' = <<>>
  /\ UNCHANGED <<phase, userPath, attempts>>
  /\ UNCHANGED nonCv

\* click on Proceed to Phase B, rendered in the verify phase after a success
CvProceed ==
  /\ phase = "verify"
  /\ status = "success"
  /\ phase' = "find"
  /\ message' = ""
  /\ status' = "idle"
  /\ cvOp' = "proceed"
  /\ cvClicked' = 0
  /\ cvBefore' = <<>>
  /\ UNCHANGED <<userPath, checks, attempts>>
  /\ UNCHANGED nonCv

\* click on a node of the graph of Phase B
CvNodeClick ==
  \E nodeId \in nodes :
    /\ userPath' = handleNodeClick(userPath, phase = "find", nodeId)
    /\ cvOp' = "click"
    /\ cvClicked' = nodeId
    /\ cvBefore' = userPath
    /\ UNCHANGED <<phase, checks, attempts, message, status>>
    /\ UNCHANGED nonCv

\* click on Check My Path, disabled outside the find phase and on an empty path
handleFindSubmit ==
  /\ phase = "find"
  /\ Len(userPath) # 0
  /\ attempts < MaxCount
  /\ attempts' = attempts + 1
  /\ IF Len(userPath) # Cardinality(nodes)
     THEN /\ message' = "Invalid: Path must visit all cities exactly once."
          /\ status' = "error"
     ELSE IF Cardinality({userPath[k] : k \in 1..Len(userPath)}) # Cardinality(nodes)
     THEN /\ message' = "Invalid: Visited a city twice."
          /\ status' = "error"
     ELSE /\ message' = "Verifying... Valid! You found it."
          /\ status' = "success"
  /\ cvOp' = "submit"
  /\ cvClicked' = 0
  /\ cvBefore' = <<>>
  /\ UNCHANGED <<phase, userPath, checks>>
  /\ UNCHANGED nonCv

\* click on Clear, disabled outside the find phase
CvClear ==
  /\ phase = "find"
  /\ userPath' = <<>>
  /\ cvOp' = "clear"
  /\ cvClicked' = 0
  /\ cvBefore' = <<>>
  /\ UNCHANGED <<phase, checks, attempts, message, status>>
  /\ UNCHANGED nonCv

\* Reset that leaves the count of checks as it is
reset_KeepsChecks ==
  /\ phase' = "verify"
  /\ userPath' = <<>>
  /\ attempts' = 0
  /\ message' = ""
  /\ status' = "idle"
  /\ cvOp' = "reset"
  /\ cvClicked' = 0
  /\ cvBefore' = <<>>
  /\ UNCHANGED checks
  /\ UNCHANGED nonCv

\* click on Reset station
reset ==
  /\ phase' = "verify"
  /\ userPath' = <<>>
  /\ checks' = 0
  /\ attempts' = 0
  /\ message' = ""
  /\ status' = "idle"
  /\ cvOp' = "reset"
  /\ cvClicked' = 0
  /\ cvBefore' = <<>>
  /\ UNCHANGED nonCv

CvNext == handleVerify \/ CvProceed \/ CvNodeClick \/ handleFindSubmit \/ CvClear \/ reset

-----------------------------------------------------------------------------
(* Reductions gallery of docs/script.js: the 3-SAT to CLIQUE builder *)

\* s.split(sep) for a separator of one character
RECURSIVE SplitOn(_, _, _, _)
SplitOn(t, sep, i, cur) ==
  IF i > Len(t) THEN <<cur>>
  ELSE IF t[i] = sep THEN <<cur>> \o SplitOn(t, sep, i + 1, <<>>)
  ELSE SplitOn(t, sep, i + 1, Append(cur, t[i]))

\* /^!?x[1-5]$/.test(L)
IsLiteral(L) ==
  LET body == IF L # <<>> /\ L[1] = "!" THEN Tail(L) ELSE L
  IN Len(body) = 2 /\ body[1] = "x" /\ body[2] \in {"1", "2", "3", "4", "5"}

\* the callback of clauses.map in parse3CNF for one clause cl
ParseClause(cl) ==
  IF ~(/\ Len(cl) >= 3
       /\ cl[1] = "("
       /\ cl[Len(cl)] = ")"
       /\ \A k \in 2..(Len(cl) - 1) : cl[k] \notin {"(", ")"})
  THEN [ok |-> FALSE, err |-> "Clause must be in parentheses"]
  ELSE LET parts == SplitOn(SubSeq(cl, 2, Len(cl) - 1), "|", 1, <<>>)
           lits == SelectSeq([k \in 1..Len(parts) |-> Trim(parts[k])],
                             LAMBDA L : L # <<>>)
       IN IF Len(lits) = 0 \/ Len(lits) > 3
          THEN [ok |-> FALSE, err |-> "Each clause must have 1..3 literals"]
          ELSE IF \E k \in 1..Len(lits) : ~IsLiteral(lits[k])
          THEN [ok |-> FALSE, err |-> "Invalid literal"]
          ELSE [ok |-> TRUE, lits |-> lits]

\* clauses.map over the parts from index i: the first clause that throws ends it
RECURSIVE ParseClauses(_, _, _)
ParseClauses(parts, i, done) ==
  IF i > Len(parts) THEN [ok |-> TRUE, clauses |-> done]
  ELSE LET c == ParseClause(parts[i])
       IN IF ~c.ok THEN c ELSE ParseClauses(parts, i + 1, Append(done, c.lits))

parse3CNF(expr) ==
  LET cleaned == StripWS(expr) IN
  IF cleaned = <<>> THEN [ok |-> FALSE, err |-> "Enter a 3-CNF formula"]
  ELSE LET r == ParseClauses(SplitOn(cleaned, "&", 1, <<>>), 1, <<>>)
       IN IF ~r.ok THEN r
          ELSE IF Len(r.clauses) > 3
          THEN [ok |-> FALSE, err |-> "Please use at most 3 clauses in this demo"]
          ELSE r

\* a.replace('!', ''): the first "!" goes
DropBang(a) ==
  IF \E k \in 1..Len(a) : a[k] = "!"
  THEN LET k == CHOOSE j \in 1..Len(a) : a[j] = "!" /\ \A h \in 1..(j - 1) : a[h] # "!"
       IN SubSeq(a, 1, k - 1) \o SubSeq(a, k + 1, Len(a))
  ELSE a

startsWithBang(a) == a # <<>> /\ a[1] = "!"

\* literals conflict whatever their signs
conflict_Never(a, b) == FALSE

conflict(a, b) ==
  IF DropBang(a) # DropBang(b) THEN FALSE
  ELSE startsWithBang(a) # startsWithBang(b)

\* the nodes of buildCliqueGraph, clause by clause, ids c<i>l<j> as <<i, j>>
CliqueNodes(clauses) ==
  Flatten([i \in 1..Len(clauses) |->
             [j \in 1..Len(clauses[i]) |->
                [id |-> <<i - 1, j - 1>>, clause |-> i - 1, lit |-> clauses[i][j]]]])

\* the edges of buildCliqueGraph: for u < v, in the order of the two loops
RECURSIVE CliqueEdges(_, _, _)
CliqueEdges(ns, u, v) ==
  IF u > Len(ns) THEN <<>>
  ELSE IF v > Len(ns) THEN CliqueEdges(ns, u + 1, u + 2)
  ELSE IF ns[u].clause # ns[v].clause /\ ~conflict(ns[u].lit, ns[v].lit)
  THEN <<<<ns[u].id, ns[v].id>>>> \o CliqueEdges(ns, u, v + 1)
  ELSE CliqueEdges(ns, u, v + 1)

buildCliqueGraph(clauses) ==
  LET ns == CliqueNodes(clauses)
  IN [nodes |-> ns, edges |-> CliqueEdges(ns, 1, 2)]

\* Object.keys(byClause).map(k => byClause[k]): the groups by ascending clause index
RECURSIVE GroupsFrom(_, _)
GroupsFrom(ns, keys) ==
  IF keys = {} THEN <<>>
  ELSE LET c == CHOOSE x \in keys : \A y \in keys : x <= y
       IN <<SelectSeq(ns, LAMBDA n : n.clause = c)>> \o GroupsFrom(ns, keys \ {c})

connected(graph, a, b) ==
  \E k \in 1..Len(graph.edges) :
    graph.edges[k] = <<a, b>> \/ graph.edges[k] = <<b, a>>

\* dfs(i, picked) of hasKCliqueAcrossClauses, the candidates of clause i from c on
RECURSIVE CliqueDfs(_, _, _, _, _)
CliqueDfs(graph, groups, i, c, picked) ==
  IF i > Len(groups) THEN TRUE
  ELSE IF c > Len(groups[i]) THEN FALSE
  ELSE LET cand == groups[i][c]
           ok == \A p \in 1..Len(picked) : connected(graph, picked[p].id, cand.id)
       IN IF ok /\ CliqueDfs(graph, groups, i + 1, 1, Append(picked, cand)) THEN TRUE
          ELSE CliqueDfs(graph, groups, i, c + 1, picked)

hasKCliqueAcrossClauses(graph, clausesCount) ==
  LET groups == GroupsFrom(graph.nodes,
                           {graph.nodes[k].clause : k \in 1..Len(graph.nodes)})
  IN IF Len(groups) # clausesCount THEN FALSE
     ELSE CliqueDfs(graph, groups, 1, 1, <<>>)

NoGraph == [err |-> "", nodes |-> <<>>, edges |-> <<>>]

NoVerdict == [text |-> "", k |-> 0]

\* click on #rg-3sat-build
RgBuild ==
  LET p == parse3CNF(rgInput) IN
  /\ IF p.ok
     THEN LET G == buildCliqueGraph(p.clauses)
              k == Len(p.clauses)
          IN /\ rgGraph' = [err |-> "", nodes |-> G.nodes, edges |-> G.edges]
             /\ rgResult' = IF hasKCliqueAcrossClauses(G, k)
                            THEN [text |-> "k-clique exists", k |-> k]
                            ELSE [text |-> "No k-clique found", k |-> k]
     ELSE /\ rgGraph' = [err |-> p.err, nodes |-> <<>>, edges |-> <<>>]
          /\ rgResult' = NoVerdict
  /\ UNCHANGED rgInput
  /\ UNCHANGED nonRg

\* the variables of the formulas typed
GalleryVars == {"1", "2"}

GalleryLiterals ==
  {<<"x", v>> : v \in GalleryVars} \cup {<<"!", "x", v>> : v \in GalleryVars}

\* t[1] sep t[2] sep ... t[n]
RECURSIVE Join(_, _)
Join(t, sep) ==
  IF t = <<>> THEN <<>>
  ELSE IF Len(t) = 1 THEN t[1]
  ELSE t[1] \o <<sep>> \o Join(Tail(t), sep)

\* an order of the literals, to type the literals of a clause in
LitRank(L) == (IF L[1] = "!" THEN 10 ELSE 0) + (IF L[Len(L)] = "1" THEN 1 ELSE 2)

\* clauses of one to three different literals, typed with parentheses
GalleryClauses ==
  {<<"(">> \o Join(c, "|") \o <<")">> :
     c \in {d \in UNION {[1..k -> GalleryLiterals] : k \in 1..3} :
              \A j \in 1..(Len(d) - 1) : LitRank(d[j]) < LitRank(d[j + 1])}}

\* formulas of one to three such clauses, and texts that try the edges of parse3CNF
RgInputs ==
  {Join(f, "&") : f \in UNION {[1..k -> GalleryClauses] : k \in 1..3}} \cup
  {<<>>,
   <<"x", "1">>,
   <<"(", "x", "6", ")">>,
   <<"(", "x", "1", "|", "x", "2", "|", "x", "1", "|", "x", "2", ")">>,
   <<"(", "x", "1", ")", "&", "(", "x", "1", ")", "&", "(", "x", "1", ")", "&", "(", "x", "1", ")">>,
   <<"(", "x", "1", "|", "|", "x", "5", ")">>,
   <<" ", "(", " ", "x", "3", " ", ")", " ", "&", " ", "(", " ", "!", " ", "x", "3", " ", ")">>,
   <<"(", ")">>,
   <<"(", "(", "x", "1", ")", ")">>,
   <<"(", "x", "4", "|", "x", "5", ")", "&", "(", "!", "x", "4", "|", "!", "x", "5", ")", "&", "(", "x", "4", "|", "!", "x", "5", ")">>,
   <<"(", "x", "1", "|", "x", "1", "|", "!", "x", "1", ")">>,
   <<"(", "!", "x", "5", ")", "&", "(", "x", "5", "|", "x", "3", ")", "&", "(", "!", "x", "3", ")">>,
   <<"(", "x", "2", ")", "&">>,
   <<"(", "!", "!", "x", "1", ")">>}

\* the builder with a formula typed
RgInit == rgInput \in RgInputs /\ rgGraph = NoGraph /\ rgResult = NoVerdict

\* the builder untouched
RgIdle == rgInput = <<>> /\ rgGraph = NoGraph /\ rgResult = NoVerdict

-----------------------------------------------------------------------------
(* Reductions gallery of docs/script.js: the CLIQUE to Vertex Cover checker *)

Digits == <<"0", "1", "2", "3", "4", "5", "6", "7", "8", "9">>

IsDigit(c) == \E d \in 1..10 : Digits[d] = c

\* Number(m[1]) for a run of digits
RECURSIVE NumberOf(_)
NumberOf(ds) ==
  IF ds = <<>> THEN 0
  ELSE NumberOf(SubSeq(ds, 1, Len(ds) - 1)) * 10 +
       ((CHOOSE d \in 1..10 : Digits[d] = ds[Len(ds)]) - 1)

\* e.match(/^(\d+)-(\d+)$/)
MatchEdge(e) ==
  LET parts == SplitOn(e, "-", 1, <<>>)
  IN IF /\ Len(parts) = 2
        /\ parts[1] # <<>>
        /\ parts[2] # <<>>
        /\ \A k \in 1..Len(parts[1]) : IsDigit(parts[1][k])
        /\ \A k \in 1..Len(parts[2]) : IsDigit(parts[2][k])
     THEN [ok |-> TRUE, u |-> NumberOf(parts[1]), v |-> NumberOf(parts[2])]
     ELSE [ok |-> FALSE, err |-> "Invalid edge"]

Max2(a, b) == IF a > b THEN a ELSE b

\* the loop of parseEdges over list from index i
RECURSIVE ParseEdgesFrom(_, _, _, _)
ParseEdgesFrom(list, i, es, maxV) ==
  IF i > Len(list) THEN [ok |-> TRUE, edges |-> es, n |-> maxV]
  ELSE LET m == MatchEdge(list[i]) IN
       IF ~m.ok THEN m
       ELSE ParseEdgesFrom(list, i + 1,
                           IF m.u = m.v THEN es ELSE Append(es, <<m.u, m.v>>),
                           Max2(maxV, Max2(m.u, m.v)))

parseEdges(t) ==
  LET parts == SplitOn(t, ",", 1, <<>>)
      list == SelectSeq([k \in 1..Len(parts) |-> Trim(parts[k])], LAMBDA e : e # <<>>)
  IN ParseEdgesFrom(list, 1, <<>>, 0)

\* adj[u], for u in 0..n
buildAdj(n, es) ==
  [u \in 0..n |->
     {es[k][2] : k \in {j \in 1..Len(es) : es[j][1] = u}} \cup
     {es[k][1] : k \in {j \in 1..Len(es) : es[j][2] = u}}]

\* comb(vs, k): the sets of k of the vertices 1..n; none unless k is one of 0..n
Combinations(n, k) == {S \in SUBSET (1..n) : Cardinality(S) = k}

hasCliqueOfSizeK(adj, n, k) ==
  \E S \in Combinations(n, k) : \A a, b \in S : a < b => b \in adj[a]

NoOut == [text |-> "", k |-> 0, vcSize |-> 0]

\* click on #rg-cv-check; a throw ends in the catch block, which shows nothing
CvCheck ==
  LET p == parseEdges(cvEdges) IN
  /\ IF p.ok /\ cvK >= 0
     THEN LET adj == buildAdj(p.n, p.edges)
          IN cvOut' = [text |-> IF hasCliqueOfSizeK(adj, p.n, cvK)
                                THEN "G has a clique of size k"
                                ELSE "No clique of size k found",
                       k |-> cvK, vcSize |-> p.n - cvK]
     ELSE UNCHANGED cvOut
  /\ UNCHANGED <<cvEdges, cvK>>
  /\ UNCHANGED nonVc

\* the vertices of the edge lists typed
CheckerVertices == {"1", "2", "3"}

\* the values of k typed
CheckerKs == -1..4

CheckerEdges == {<<u, "-", v>> : u, v \in CheckerVertices}

\* edge lists of up to MaxEdges edges, and texts that try the edges of parseEdges
VcInputs ==
  {Join(l, ",") : l \in UNION {[1..k -> CheckerEdges] : k \in 0..MaxEdges}} \cup
  {<<"0", "-", "1">>,
   <<"1", "-", "1", "2", ",", "1", "2", "-", "2", ",", "2", "-", "1">>,
   <<"a", "-", "b">>,
   <<"1", " ", "-", " ", "2">>,
   <<"1", "-", "2", ",", ",", "2", "-", "3">>,
   <<" ", "1", "-", "2", " ", ",", " ", "2", "-", "3", " ">>,
   <<"1", "-">>,
   <<"3", "-", "3">>,
   <<"2", "-", "1", "0", ",", "1", "0", "-", "2">>}

\* the checker with an edge list and a k typed
VcInit == cvEdges \in VcInputs /\ cvK \in CheckerKs /\ cvOut = NoOut

\* the checker untouched
VcIdle == cvEdges = <<>> /\ cvK = 0 /\ cvOut = NoOut

-----------------------------------------------------------------------------
(* Approximation corner of docs/script.remade.js: vertex cover and set cover *)

\* [u, v] for u < v <= n, in the order of the two loops of randVC
RECURSIVE PairsFrom(_, _, _)
PairsFrom(u, v, n) ==
  IF u > n THEN <<>>
  ELSE IF v > n THEN PairsFrom(u + 1, u + 2, n)
  ELSE <<<<u, v>>>> \o PairsFrom(u, v + 1, n)

\* the graphs randVC(n) can return: each pair is pushed or not
randVC(n) ==
  {[n |-> n, edges |-> SelectSeq(PairsFrom(1, 2, n), LAMBDA e : e \in E)] :
     E \in SUBSET {PairsFrom(1, 2, n)[k] : k \in 1..Len(PairsFrom(1, 2, n))}}

\* deg.get(x) over es
Degree(es, x) == Cardinality({k \in 1..Len(es) : es[k][1] = x \/ es[k][2] = x})

\* the place of x in the insertion order of deg: its first mention in es
FirstSeen(es, x) ==
  CHOOSE i \in 1..(2 * Len(es)) :
    /\ es[(i + 1) \div 2][2 - (i % 2)] = x
    /\ \A j \in 1..(i - 1) : es[(j + 1) \div 2][2 - (j % 2)] # x

\* [...deg.entries()].sort((a, b) => b[1] - a[1])[0][0]
MaxDegreeVertex(es) ==
  LET vs == {es[k][1] : k \in 1..Len(es)} \cup {es[k][2] : k \in 1..Len(es)}
  IN CHOOSE x \in vs :
       \A y \in vs :
         \/ Degree(es, x) > Degree(es, y)
         \/ Degree(es, x) = Degree(es, y) /\ FirstSeen(es, x) <= FirstSeen(es, y)

\* the while loop of vcGreedy
RECURSIVE VcGreedyLoop(_, _)
VcGreedyLoop(es, cover) ==
  IF es = <<>> THEN cover
  ELSE LET v == MaxDegreeVertex(es)
       IN VcGreedyLoop(SelectSeq(es, LAMBDA e : e[1] # v /\ e[2] # v),
                       IF \E k \in 1..Len(cover) : cover[k] = v THEN cover
                       ELSE Append(cover, v))

vcGreedy(g) == VcGreedyLoop(g.edges, <<>>)

NoBest == [found |-> FALSE, pick |-> <<>>]

\* the loop of vcExact over subsets(vs), from index i with cur chosen so far
RECURSIVE VcSubsets(_, _, _, _)
VcSubsets(g, i, cur, best) ==
  IF i > g.n
  THEN IF best.found /\ Len(cur) >= Len(best.pick) THEN best
       ELSE IF \A k \in 1..Len(g.edges) :
                 \E j \in 1..Len(cur) : cur[j] = g.edges[k][1] \/ cur[j] = g.edges[k][2]
            THEN [found |-> TRUE, pick |-> cur]
            ELSE best
  ELSE VcSubsets(g, i + 1, cur, VcSubsets(g, i + 1, Append(cur, i), best))

\* every vertex, whatever the edges
vcExact_AllVertices(g) == [k \in 1..g.n |-> k]

vcExact(g) == VcSubsets(g, 1, <<>>, NoBest).pick

\* the families randSetCover(n) can return: up to n sets, none of them empty
randSetCover(n) ==
  UNION {[1..m -> (SUBSET (1..n)) \ {{}}] : m \in 0..n}

\* S.filter(x => need.has(x)).length
Gain(S, need) == Cardinality(S \cap need)

\* the forEach of scGreedy: the first index of the largest gain, from 0
BestIndex(sets, need) ==
  IF sets = <<>> THEN [best |-> -1, idx |-> -1]
  ELSE LET i == CHOOSE i \in 1..Len(sets) :
                  /\ \A j \in 1..Len(sets) : Gain(sets[j], need) <= Gain(sets[i], need)
                  /\ \A j \in 1..(i - 1) : Gain(sets[j], need) < Gain(sets[i], need)
       IN [best |-> Gain(sets[i], need), idx |-> i - 1]

\* the while loop of scGreedy
RECURSIVE ScGreedyLoop(_, _, _)
ScGreedyLoop(sets, need, pick) ==
  IF need = {} THEN pick
  ELSE LET b == BestIndex(sets, need)
       IN IF b.best <= 0 THEN pick
          ELSE ScGreedyLoop(sets, need \ sets[b.idx + 1], Append(pick, b.idx))

scGreedy(U, sets) == ScGreedyLoop(sets, {U[k] : k \in 1..Len(U)}, <<>>)

\* dfs of scExact; i counts from 0 as in the source
RECURSIVE ScDfs(_, _, _, _, _, _)
ScDfs(U, sets, i, pick, covered, best) ==
  IF i = Len(sets)
  THEN IF Cardinality(covered) = Len(U) /\ (~best.found \/ Len(pick) < Len(best.pick))
       THEN [found |-> TRUE, pick |-> pick]
       ELSE best
  ELSE ScDfs(U, sets, i + 1, Append(pick, i), covered \cup sets[i + 1],
             ScDfs(U, sets, i + 1, pick, covered, best))

scExact(U, sets) == ScDfs(U, sets, 0, <<>>, {}, NoBest).pick

\* the members of an array, as prettyVCSet and prettyPick show them
Shown(arr) == {arr[k] : k \in 1..Len(arr)}

NoResult == [text |-> "", picked |-> {}, size |-> 0, worse |-> FALSE]

\* click on #ag-generate, with n the value of the size slider
AgGenerate ==
  \E n \in 1..(IF agSel = "vc" THEN MaxSize ELSE MaxUniverse) :
    /\ IF agSel = "vc"
       THEN /\ agG' \in {Some(g) : g \in randVC(n)}
            /\ UNCHANGED <<agU, agSets>>
       ELSE /\ agU' = Some([k \in 1..n |-> k])
            /\ agSets' \in {Some(f) : f \in randSetCover(n)}
            /\ UNCHANGED agG
    /\ agOut' = NoResult
    /\ UNCHANGED agSel
    /\ UNCHANGED nonAg

\* click on #ag-greedy
AgGreedy ==
  /\ IF agSel = "vc" /\ ~agG.isNull
     THEN LET g == vcGreedy(agG.v)
          IN agOut' = [text |-> "Greedy VC", picked |-> Shown(g), size |-> Len(g),
                       worse |-> FALSE]
     ELSE IF agSel = "sc" /\ ~agU.isNull
     THEN LET pick == scGreedy(agU.v, agSets.v)
          IN agOut' = [text |-> "Greedy SC", picked |-> Shown(pick), size |-> Len(pick),
                       worse |-> FALSE]
     ELSE UNCHANGED agOut
  /\ UNCHANGED <<agSel, agG, agU, agSets>>
  /\ UNCHANGED nonAg

\* click on #ag-exact
AgExact ==
  /\ IF agSel = "vc" /\ ~agG.isNull
     THEN LET opt == vcExact(agG.v)
              greedy == Len(vcGreedy(agG.v))
          IN agOut' = [text |-> "Optimal VC", picked |-> Shown(opt), size |-> Len(opt),
                       worse |-> greedy > Len(opt)]
     ELSE IF agSel = "sc" /\ ~agU.isNull
     THEN LET opt == scExact(agU.v, agSets.v)
              greedy == Len(scGreedy(agU.v, agSets.v))
          IN agOut' = [text |-> "Optimal SC", picked |-> Shown(opt), size |-> Len(opt),
                       worse |-> greedy > Len(opt)]
     ELSE UNCHANGED agOut
  /\ UNCHANGED <<agSel, agG, agU, agSets>>
  /\ UNCHANGED nonAg

AgNext == AgGenerate \/ AgGreedy \/ AgExact

\* the corner as loaded, with problem chosen in #ag-problem
AgInit(problem) ==
  agSel = problem /\ agG = Null /\ agU = Null /\ agSets = Null /\ agOut = NoResult

\* the corner untouched
AgIdle == agSel = "vc" /\ agG = Null /\ agU = Null /\ agSets = Null /\ agOut = NoResult

-----------------------------------------------------------------------------
(* Parameterized nook of docs/script.remade.js: k-clique, k-path, kernelization *)

\* the edge lists randGraph(n) can return
randGraph(n) == {g.edges : g \in randVC(n)}

\* adj[x] after E.forEach(([u, v]) => { adj[u].add(v); adj[v].add(u); })
AdjOf(E, x) ==
  {E[j][2] : j \in {i \in 1..Len(E) : E[i][1] = x}} \cup
  {E[j][1] : j \in {i \in 1..Len(E) : E[i][2] = x}}

\* adj[u] or G[u] is undefined for a vertex above n: the forEach throws
Throws(n, E) == \E j \in 1..Len(E) : E[j][1] > n \/ E[j][2] > n

\* S comes before T in the order comb yields the sets of one size
CombBefore(S, T) ==
  S # T /\ (CHOOSE x \in (S \ T) \cup (T \ S) :
              \A y \in (S \ T) \cup (T \ S) : x <= y) \in S

kClique(n, k, E) ==
  LET combs == {S \in SUBSET (1..n) : Cardinality(S) = k}
      cliques == {S \in combs : \A a, b \in S : a # b => b \in AdjOf(E, a)}
  IN IF cliques = {}
     THEN [found |-> FALSE, checked |-> Cardinality(combs)]
     ELSE LET first == CHOOSE S \in cliques : \A T \in cliques : T = S \/ CombBefore(S, T)
          IN [found |-> TRUE,
              checked |-> 1 + Cardinality({T \in combs : CombBefore(T, first)})]

\* G[x]: the neighbours of x in the order they are pushed
Neighbours(E, x) ==
  LET inc == SelectSeq(E, LAMBDA e : e[1] = x \/ e[2] = x)
  IN [i \in 1..Len(inc) |-> IF inc[i][1] = x THEN inc[i][2] ELSE inc[i][1]]

RECURSIVE PathDfs(_, _, _, _, _, _)
RECURSIVE PathLoop(_, _, _, _, _, _, _)

\* dfs(u, vis, len) of kPath, with the counter checked passed through
PathDfs(E, k, u, vis, len, checked) ==
  IF len = k THEN [found |-> TRUE, checked |-> checked]
  ELSE PathLoop(E, k, u, vis, len, 1, checked)

\* the for loop of dfs over G[u], from its j-th entry
PathLoop(E, k, u, vis, len, j, checked) ==
  IF j > Len(Neighbours(E, u)) THEN [found |-> FALSE, checked |-> checked]
  ELSE LET v == Neighbours(E, u)[j] IN
       IF v \in vis THEN PathLoop(E, k, u, vis, len, j + 1, checked)
       ELSE LET r == PathDfs(E, k, v, vis \cup {v}, len + 1, checked + 1)
            IN IF r.found THEN r ELSE PathLoop(E, k, u, vis, len, j + 1, r.checked)

\* the loop of kPath over the start vertices
RECURSIVE PathStarts(_, _, _, _, _)
PathStarts(E, n, k, start, checked) ==
  IF start > n THEN [found |-> FALSE, checked |-> checked]
  ELSE LET r == PathDfs(E, k, start, {start}, 1, checked)
       IN IF r.found THEN r ELSE PathStarts(E, n, k, start + 1, r.checked)

kPath(n, k, E) == PathStarts(E, n, k, 1, 0)

\* a vertex of degree k - 1 goes as well
LowDegree_UpToK(size, k) == size > 0 /\ size < k

\* adj[v].size > 0 && adj[v].size < k - 1
LowDegree(size, k) == size > 0 /\ size < k - 1

\* the while loop of kernelizeVC, inside a pass at vertex v
RECURSIVE KernelLoop(_, _, _, _, _, _)
KernelLoop(adj, n, k, v, removed, changed) ==
  IF v > n
  THEN IF changed THEN KernelLoop(adj, n, k, 1, removed, FALSE)
       ELSE [adj |-> adj, removed |-> removed]
  ELSE IF LowDegree(Cardinality(adj[v]), k)
  THEN KernelLoop([u \in 1..n |-> IF u = v THEN {} ELSE adj[u] \ {v}],
                  n, k, v + 1, Append(removed, v), TRUE)
  ELSE KernelLoop(adj, n, k, v + 1, removed, changed)

SumOver(f, n) == LET RECURSIVE Sum(_)
                     Sum(i) == IF i = 0 THEN 0 ELSE f[i] + Sum(i - 1)
                 IN Sum(n)

kernelizeVC(n, E, k) ==
  LET r == KernelLoop([u \in 1..n |-> AdjOf(E, u)], n, k, 1, <<>>, FALSE)
      remE == SumOver([v \in 1..n |-> Cardinality(r.adj[v])], n)
  IN [removed |-> r.removed,
      remainingV |-> Cardinality({v \in 1..n : r.adj[v] # {}}),
      remainingE |-> (remE + 1) \div 2]

NoOutput == [text |-> "", n |-> 0, k |-> 0, edges |-> 0, found |-> FALSE, checked |-> 0,
             removed |-> {}, remainingV |-> 0, remainingE |-> 0]

\* click on #fpt-rand, with n the value of #fpt-n
FptRand ==
  \E n \in 1..MaxN :
    /\ fptEdges' \in randGraph(n)
    /\ fptOut' = [NoOutput EXCEPT !.text = "Random graph", !.n = n,
                                  !.edges = Len(fptEdges')]
    /\ UNCHANGED <<fptSel, fptRunN>>
    /\ UNCHANGED nonFpt

\* click on #fpt-run, with n and k the values of #fpt-n and #fpt-k; the graph
\* is drawn first when there are no edges
FptRun ==
  \E n \in 1..MaxN, k \in 1..MaxN :
    /\ IF fptEdges = <<>> THEN fptEdges' \in randGraph(n) ELSE UNCHANGED fptEdges
    /\ IF Throws(n, fptEdges') THEN UNCHANGED <<fptOut, fptRunN>>
       ELSE /\ fptRunN' = n
            /\ IF fptSel = "kclique"
               THEN LET r == kClique(n, k, fptEdges')
                        ker == kernelizeVC(n, fptEdges', k)
                    IN fptOut' = [NoOutput EXCEPT !.text = "k-Clique", !.k = k,
                                    !.found = r.found, !.checked = r.checked,
                                    !.removed = Shown(ker.removed),
                                    !.remainingV = ker.remainingV,
                                    !.remainingE = ker.remainingE]
               ELSE LET r == kPath(n, k, fptEdges')
                    IN fptOut' = [NoOutput EXCEPT !.text = "k-Path", !.k = k,
                                    !.found = r.found, !.checked = r.checked]
    /\ UNCHANGED fptSel
    /\ UNCHANGED nonFpt

FptNext == FptRand \/ FptRun

\* the nook as loaded, with a problem chosen in #fpt-problem
FptInit ==
  fptEdges = <<>> /\ fptOut = NoOutput /\ fptRunN = 0 /\ fptSel \in {"kclique", "kpath"}

\* the nook untouched
FptIdle == fptSel = "kclique" /\ fptEdges = <<>> /\ fptOut = NoOutput /\ fptRunN = 0

-----------------------------------------------------------------------------
(* Scaling wall of docs/script.remade.js *)

\* Math.round(num / den) for num >= 0
RoundHalfUp(num, den) == (2 * num + den) \div (2 * den)

\* the literals over x1..xn: '!' + v or v
WallLiterals(n) == [neg : BOOLEAN, v : 1..n]

\* the instances randSAT(n, density) can return
randSAT(n, density) ==
  LET m == Max2(1, RoundHalfUp(density * n * 4, 100))
  IN [1..m -> [1..3 -> WallLiterals(n)]]

\* every literal of the clause has to hold
evalClause_Every(cl, env) ==
  \A j \in 1..Len(cl) : IF cl[j].neg THEN ~env[cl[j].v] ELSE env[cl[j].v]

\* env[name] of a name not yet set is undefined, which reads as false
evalClause(cl, env) ==
  \E j \in 1..Len(cl) : IF cl[j].neg THEN ~env[cl[j].v] ELSE env[cl[j].v]

\* dfs(i, env) of satBacktrack. st carries nodes, the number of dfs calls so far
\* and the one env object; the call numbered expiry or later reads the clock
\* past the cap
RECURSIVE WallDfs(_, _, _, _, _)
RECURSIVE WallDfsTrue(_, _, _, _, _)

\* the leaf of the search: clauses.every(c => evalClause(c, env)) ? env : null
WallLeaf(clauses, st) ==
  [st EXCEPT !.nodes = st.nodes + 1,
             !.sol = IF \A c \in 1..Len(clauses) : evalClause(clauses[c], st.env)
                     THEN Some(st.env) ELSE Null]

\* dfs(i, env) once the clock is read, with here.calls the number of this call
WallDfsBody(n, clauses, expiry, i, here) ==
  IF here.calls >= expiry THEN [here EXCEPT !.sol = Null]
  ELSE IF i = n THEN WallLeaf(clauses, here)
  ELSE WallDfsTrue(n, clauses, expiry, i,
                   WallDfs(n, clauses, expiry, i + 1,
                           [here EXCEPT !.env[i + 1] = FALSE, !.nodes = here.nodes + 1]))

WallDfs(n, clauses, expiry, i, st) ==
  WallDfsBody(n, clauses, expiry, i, [st EXCEPT !.calls = st.calls + 1])

\* the rest of dfs after a = dfs(i + 1, env): if (a) return a, else try true
WallDfsTrue(n, clauses, expiry, i, a) ==
  IF ~a.sol.isNull THEN a
  ELSE WallDfs(n, clauses, expiry, i + 1,
               [a EXCEPT !.env[i + 1] = TRUE, !.nodes = a.nodes + 1])

\* the result of satBacktrack once dfs has returned r; the timeout flag is one
\* more reading of the clock
WallResult(r, expiry) ==
  [nodes |-> r.nodes, sol |-> r.sol, timeout |-> r.calls + 1 >= expiry, calls |-> r.calls]

\* satBacktrack(n, clauses), with the clock past the cap from its reading
\* numbered expiry on
satBacktrack(n, clauses, expiry) ==
  WallResult(WallDfs(n, clauses, expiry, 0,
                     [nodes |-> 0, calls |-> 0, env |-> [v \in 1..n |-> FALSE],
                      sol |-> Null]),
             expiry)

\* the edge lists randGraph(n, density) of the wall can return
WallGraphs(n, density) ==
  IF density <= 0 THEN {<<>>}
  ELSE IF density >= 100 THEN {PairsFrom(1, 2, n)}
  ELSE randGraph(n)

\* Math.max(2, Math.min(5, Math.floor(n / 3)))
WallK(n) == Max2(2, IF n \div 3 < 5 THEN n \div 3 ELSE 5)

\* the same search as kClique, with the size WallK(n)
cliqueBruteforce(n, es) ==
  [found |-> kClique(n, WallK(n), es).found, nodes |-> kClique(n, WallK(n), es).checked]

\* the values of the density slider #sw-density
WallDensities == {0, 25}

\* the calls of dfs a search over n variables can make, and one more
WallReads(n) == 1..(2 * Pow2(n) + 1)

NoLog == [problem |-> "", n |-> 0, size |-> 0, work |-> 0, timeout |-> FALSE]

NoLast ==
  [problem |-> "", n |-> 0, inst |-> <<>>, expiry |-> 0,
   res |-> [nodes |-> 0, sol |-> Null, timeout |-> FALSE, calls |-> 0]]

\* click on #sw-run with SAT chosen
WallRunSAT ==
  /\ Len(wallRuns) < MaxRuns
  /\ \E n \in 1..MaxWallN, density \in WallDensities :
    \E inst \in randSAT(n, density), expiry \in WallReads(n) :
      /\ wallLast' = [problem |-> "SAT", n |-> n, inst |-> inst, expiry |-> expiry,
                      res |-> satBacktrack(n, inst, expiry)]
      /\ wallRuns' = Append(wallRuns, [problem |-> "SAT", n |-> n, density |-> density,
                                        work |-> wallLast'.res.nodes])
      /\ wallLog' = [problem |-> "SAT", n |-> n, size |-> Len(inst),
                     work |-> wallLast'.res.nodes, timeout |-> wallLast'.res.timeout]
      /\ UNCHANGED wallCsv
      /\ UNCHANGED nonWall

\* click on #sw-run with CLIQUE chosen
WallRunClique ==
  /\ Len(wallRuns) < MaxRuns
  /\ \E n \in 1..MaxWallN, density \in WallDensities :
    \E es \in WallGraphs(n, density) :
      /\ wallLast' = [NoLast EXCEPT !.problem = "CLIQUE", !.n = n,
                                     !.res.nodes = cliqueBruteforce(n, es).nodes]
      /\ wallRuns' = Append(wallRuns, [problem |-> "CLIQUE", n |-> n, density |-> density,
                                        work |-> wallLast'.res.nodes])
      /\ wallLog' = [problem |-> "CLIQUE", n |-> n, size |-> Len(es),
                     work |-> wallLast'.res.nodes, timeout |-> FALSE]
      /\ UNCHANGED wallCsv
      /\ UNCHANGED nonWall

\* click on #sw-export: the file holds one row for each run
WallExport ==
  /\ wallCsv' = wallRuns
  /\ UNCHANGED <<wallRuns, wallLog, wallLast>>
  /\ UNCHANGED nonWall

\* click on #sw-clear: clearPlot; the history follows the plot
clearPlot ==
  /\ wallLog' = NoLog
  /\ wallRuns' = <<>>
  /\ wallLast' = NoLast
  /\ UNCHANGED wallCsv
  /\ UNCHANGED nonWall

WallNext == WallRunSAT \/ WallRunClique \/ WallExport \/ clearPlot

WallInit == wallRuns = <<>> /\ wallLog = NoLog /\ wallCsv = <<>> /\ wallLast = NoLast

WallIdle == WallInit

-----------------------------------------------------------------------------
(* Reduction conveyor of docs/script.remade.js *)

\* the keys of names: the problems of the palette
BeltProblems == {"3sat", "clique", "vc", "is", "3color", "hamil"}

\* every pair of problems counts as a reduction
beltEdges_AnyPair == BeltProblems \X BeltProblems

\* edges of the conveyor: the key a>b is the pair <<a, b>>
beltEdges ==
  {<<"3sat", "clique">>, <<"clique", "vc">>, <<"vc", "is">>, <<"is", "3color">>,
   <<"3sat", "hamil">>, <<"hamil", "3color">>}

\* for each pair of neighbours of seq, whether edges has it
BeltPairs(seq) ==
  [i \in 1..(IF Len(seq) = 0 THEN 0 ELSE Len(seq) - 1) |-> <<seq[i], seq[i + 1]>> \in beltEdges]

\* the text of #rl-stats: its opening words and the kind of each detail
BeltStatsOf(seq) ==
  [text |-> IF Len(seq) = 0 THEN "Click problems to place them on the belt."
            ELSE IF \A i \in 1..Len(BeltPairs(seq)) : BeltPairs(seq)[i]
            THEN "Pipeline valid." ELSE "Pipeline has gaps.",
   details |-> IF Len(seq) = 0 THEN <<>> ELSE BeltPairs(seq)]

\* seq.splice(from, 1) and seq.splice(to, 0, x), counting from 0
MoveItem(seq, from, to) ==
  LET rest == SubSeq(seq, 1, from) \o SubSeq(seq, from + 2, Len(seq))
  IN SubSeq(rest, 1, to) \o <<seq[from + 1]>> \o SubSeq(rest, to + 1, Len(rest))

\* render() for the belt seq
BeltRender(seq) ==
  /\ beltSeq' = seq
  /\ beltStats' = BeltStatsOf(seq)
  /\ beltExpl' = BeltPairs(seq)

\* click on a problem of the palette
BeltPlace ==
  /\ Len(beltSeq) < MaxBelt
  /\ \E prob \in BeltProblems : BeltRender(Append(beltSeq, prob))
  /\ beltOp' = "place"
  /\ beltBefore' = beltSeq
  /\ UNCHANGED nonBelt

\* a chip dragged from place from is dropped on the chip at place to
BeltDrop ==
  /\ \E from \in 0..(Len(beltSeq) - 1), to \in 0..(Len(beltSeq) - 1) :
       IF from # to THEN BeltRender(MoveItem(beltSeq, from, to))
       ELSE UNCHANGED <<beltSeq, beltStats, beltExpl>>
  /\ beltOp' = "drop"
  /\ beltBefore' = beltSeq
  /\ UNCHANGED nonBelt

\* click on #rl-clear
BeltClear ==
  /\ BeltRender(<<>>)
  /\ beltOp' = "clear"
  /\ beltBefore' = beltSeq
  /\ UNCHANGED nonBelt

\* click on #rl-export: a picture of the belt is downloaded, the belt stays
BeltExport ==
  /\ Len(beltSeq) # 0
  /\ beltOp' = "export"
  /\ beltBefore' = beltSeq
  /\ UNCHANGED <<beltSeq, beltStats, beltExpl>>
  /\ UNCHANGED nonBelt

BeltNext == BeltPlace \/ BeltDrop \/ BeltClear \/ BeltExport

\* the belt after initReductionBelt: empty and rendered once
BeltInit ==
  /\ beltSeq = <<>> /\ beltStats = BeltStatsOf(<<>>) /\ beltExpl = <<>>
  /\ beltOp = "init" /\ beltBefore = <<>>

BeltIdle == BeltInit

-----------------------------------------------------------------------------
(* Reductions station: the map of problems and the Reduction Engineer task *)

Problems == {"3SAT", "CLIQUE", "PATH"}

reductions ==
  <<[source |-> "3SAT", target |-> "CLIQUE",
     description |-> "Transform clauses into groups of nodes. Edges connect compatible literals.",
     sizeEffect |-> "n variables, m clauses -> 3m nodes"],
    [source |-> "CLIQUE", target |-> "3SAT",
     description |-> "Possible but complex (NP-Complete to NP-Complete).",
     sizeEffect |-> "Polynomial blowup"],
    [source |-> "3SAT", target |-> "PATH",
     description |-> "Variables become diamond gadgets, clauses become check nodes.",
     sizeEffect |-> "Large constant factor growth"]>>

NoInfo == [source |-> "", target |-> "", description |-> "", sizeEffect |-> ""]

\* the first reduction from the source, whatever its target
infoFor_SourceOnly(source, problem) ==
  IF \E k \in 1..Len(reductions) : reductions[k].source = source
  THEN reductions[CHOOSE k \in 1..Len(reductions) :
                    /\ reductions[k].source = source
                    /\ \A j \in 1..(k - 1) : reductions[j].source # source]
  ELSE [source |-> source, target |-> problem,
        description |-> "Reduction exists but not detailed here.",
        sizeEffect |-> "Polynomial"]

\* reductions.find(...) or the reduction made up when there is none
infoFor(source, problem) ==
  IF \E k \in 1..Len(reductions) :
       reductions[k].source = source /\ reductions[k].target = problem
  THEN reductions[CHOOSE k \in 1..Len(reductions) :
                    /\ reductions[k].source = source /\ reductions[k].target = problem
                    /\ \A j \in 1..(k - 1) :
                         ~(reductions[j].source = source /\ reductions[j].target = problem)]
  ELSE [source |-> source, target |-> problem,
        description |-> "Reduction exists but not detailed here.",
        sizeEffect |-> "Polynomial"]

\* click on a problem of the map: handleNodeClick of Reductions
MapNodeClick ==
  /\ \E problem \in Problems :
       /\ IF selectedSource = ""
          THEN /\ selectedSource' = problem
               /\ reductionInfo' = NoInfo
               /\ UNCHANGED selectedTarget
          ELSE IF selectedSource = problem
          THEN /\ selectedSource' = ""
               /\ selectedTarget' = ""
               /\ reductionInfo' = NoInfo
          ELSE /\ selectedTarget' = problem
               /\ reductionInfo' = infoFor(selectedSource, problem)
               /\ UNCHANGED selectedSource
       /\ redOp' = [op |-> "node", problem |-> problem, id |-> 0]
  /\ UNCHANGED <<taskStep, selectedGadget, feedback>>
  /\ UNCHANGED nonRed

\* click on Start Task, rendered while the step is intro
StartTask ==
  /\ taskStep = "intro"
  /\ taskStep' = "challenge"
  /\ redOp' = [op |-> "start", problem |-> "", id |-> 0]
  /\ UNCHANGED <<selectedSource, selectedTarget, reductionInfo, selectedGadget, feedback>>
  /\ UNCHANGED nonRed

\* click on a gadget, rendered once the step is not intro
handleGadgetSelect ==
  /\ taskStep # "intro"
  /\ \E id \in {1, 2, 3} :
       /\ selectedGadget' = id
       /\ IF id = 2
          THEN /\ feedback' = "Correct! This gadget forces at least one input to be true."
               /\ taskStep' = "success"
          ELSE /\ feedback' = "Incorrect. This gadget allows all inputs to be false, breaking the clause logic."
               /\ UNCHANGED taskStep
       /\ redOp' = [op |-> "gadget", problem |-> "", id |-> id]
  /\ UNCHANGED <<selectedSource, selectedTarget, reductionInfo>>
  /\ UNCHANGED nonRed

RedNext == MapNodeClick \/ StartTask \/ handleGadgetSelect

\* the station as mounted
RedInit ==
  /\ selectedSource = "" /\ selectedTarget = "" /\ reductionInfo = NoInfo
  /\ taskStep = "intro" /\ selectedGadget = 0 /\ feedback = ""
  /\ redOp = [op |-> "init", problem |-> "", id |-> 0]

RedIdle == RedInit

-----------------------------------------------------------------------------
(* Graph-coloring corner of docs/script.remade.js *)

\* PRESETS of initGraphColoring: the number of nodes, with ids 1..n, and the edges
ColoringPRESETS ==
  [triangle |-> [n |-> 3, edges |-> <<<<1, 2>>, <<2, 3>>, <<1, 3>>>>],
   cube |-> [n |-> 8,
             edges |-> <<<<1, 2>>, <<1, 3>>, <<2, 4>>, <<3, 4>>, <<5, 6>>, <<5, 7>>,
                         <<6, 8>>, <<7, 8>>, <<1, 5>>, <<2, 6>>, <<3, 7>>, <<4, 8>>>>],
   petersen |-> [n |-> 10,
                 edges |-> <<<<1, 2>>, <<2, 3>>, <<3, 4>>, <<4, 5>>, <<5, 1>>, <<1, 6>>,
                             <<2, 7>>, <<3, 8>>, <<4, 9>>, <<5, 10>>, <<6, 8>>,
                             <<8, 10>>, <<10, 7>>, <<7, 9>>, <<9, 6>>>>]]

ColoringKeys == {"triangle", "cube", "petersen"}

\* edges: the copy of the edges of the preset loaded, which nothing changes
gcEdges == ColoringPRESETS[currentKey].edges

\* valid() for the colours col on the edges es
valid(es, col) ==
  \A k \in 1..Len(es) :
    /\ col[es[k][1]] # -1 /\ col[es[k][2]] # -1
    /\ col[es[k][1]] # col[es[k][2]]

\* used: the colours of the coloured neighbours of node id
UsedBy(es, col, id) ==
  {col[es[k][2]] : k \in {j \in 1..Len(es) : es[j][1] = id /\ col[es[j][2]] >= 0}} \cup
  {col[es[k][1]] : k \in {j \in 1..Len(es) : es[j][2] = id /\ col[es[j][1]] >= 0}}

\* colour 0 whatever the neighbours have
NextColor_AlwaysZero(used, c) == 0

\* for (let c = 0; c < 3; c++) if (!used.has(c)) { n.c = c; break; }; the
\* colour stays c when the three are used
NextColor(used, c) ==
  IF 0 \notin used THEN 0 ELSE IF 1 \notin used THEN 1 ELSE IF 2 \notin used THEN 2 ELSE c

\* the loop of greedy over the nodes, from node id on
RECURSIVE GreedyFrom(_, _, _)
GreedyFrom(es, col, id) ==
  IF id > Len(col) THEN col
  ELSE GreedyFrom(es, [col EXCEPT ![id] = NextColor(UsedBy(es, col, id), col[id])], id + 1)

\* loadPreset(key)
GcLoadPreset(key) ==
  /\ currentKey' = key
  /\ gcNodes' = [id \in 1..ColoringPRESETS[key].n |-> -1]
  /\ gcStatus' = ""

\* click on a preset chip
GcPreset ==
  /\ \E key \in ColoringKeys : GcLoadPreset(key)
  /\ gcOp' = "preset"
  /\ gcClicks' = 0
  /\ UNCHANGED nonGc

\* click on a node: n.c = (n.c + 1) % 3
GcNodeClick ==
  /\ gcClicks < MaxClicks
  /\ \E id \in DOMAIN gcNodes : gcNodes' = [gcNodes EXCEPT ![id] = (gcNodes[id] + 1) % 3]
  /\ gcOp' = "click"
  /\ gcClicks' = gcClicks + 1
  /\ UNCHANGED <<currentKey, gcStatus>>
  /\ UNCHANGED nonGc

\* click on #gc-greedy
greedy ==
  /\ gcNodes' = GreedyFrom(gcEdges, gcNodes, 1)
  /\ gcOp' = "greedy"
  /\ UNCHANGED <<currentKey, gcStatus, gcClicks>>
  /\ UNCHANGED nonGc

\* click on #gc-check
GcCheck ==
  /\ gcStatus' = IF valid(gcEdges, gcNodes) THEN "Proper 3-coloring"
                 ELSE "Not a valid 3-coloring"
  /\ gcOp' = "check"
  /\ UNCHANGED <<currentKey, gcNodes, gcClicks>>
  /\ UNCHANGED nonGc

\* click on #gc-reset
GcReset ==
  /\ gcNodes' = [id \in DOMAIN gcNodes |-> -1]
  /\ gcStatus' = ""
  /\ gcOp' = "reset"
  /\ gcClicks' = 0
  /\ UNCHANGED currentKey
  /\ UNCHANGED nonGc

GcNext == GcPreset \/ GcNodeClick \/ greedy \/ GcCheck \/ GcReset

\* the corner after initGraphColoring: loadPreset('triangle')
GcInit ==
  /\ currentKey = "triangle"
  /\ gcNodes = [id \in 1..3 |-> -1]
  /\ gcStatus = ""
  /\ gcOp = "init"
  /\ gcClicks = 0

GcIdle == GcInit

-----------------------------------------------------------------------------
(* Reduction quiz of docs/script.js *)

\* QS: the index a of the right option of each question
QS == <<1, 1, 1, 0>>

\* the options of a question, by index
OptionIndexes == 0..2

\* #rq-score before the first click writes it
NoScore == [written |-> FALSE, score |-> 0]

\* cur = QS[i % QS.length], the question renderQ displays
cur(i) == QS[(i % Len(QS)) + 1]

\* click on option idx with the lock never taken
OptionClick_NoLock(idx) ==
  /\ rqClicks < MaxOptionClicks
  /\ score' = IF idx = cur(rqI) THEN score + 1 ELSE score
  /\ scoreEl' = [written |-> TRUE, score |-> score']
  /\ rqClicks' = rqClicks + 1
  /\ UNCHANGED <<rqI, locked>>
  /\ UNCHANGED nonRq

\* click on option idx of the question shown
OptionClick(idx) ==
  /\ rqClicks < MaxOptionClicks
  /\ IF locked
       THEN UNCHANGED <<locked, score, scoreEl>>
       ELSE /\ locked' = TRUE
            /\ score' = IF idx = cur(rqI) THEN score + 1 ELSE score
            /\ scoreEl' = [written |-> TRUE, score |-> score']
  /\ rqClicks' = rqClicks + 1
  /\ UNCHANGED rqI
  /\ UNCHANGED nonRq

RqOptionClick == \E idx \in OptionIndexes : OptionClick(idx)

\* click on #rq-next: i++; renderQ()
RqNextClick ==
  /\ rqI + 1 < MaxQuestions
  /\ rqI' = rqI + 1
  /\ locked' = FALSE
  /\ rqClicks' = 0
  /\ UNCHANGED <<score, scoreEl>>
  /\ UNCHANGED nonRq

RqNext == RqOptionClick \/ RqNextClick

\* the quiz after initReductionQuiz: renderQ() with i = 0, score = 0
RqInit ==
  /\ rqI = 0
  /\ score = 0
  /\ locked = FALSE
  /\ scoreEl = NoScore
  /\ rqClicks = 0

RqIdle == RqInit

-----------------------------------------------------------------------------
(* bootstrap of docs/script.remade.js *)

\* the calls of the DOMContentLoaded listener: the name given to safeInit and
\* the initializer
BootCalls ==
  <<[name |-> "Reveal", fn |-> "initReveal"],
    [name |-> "Handout", fn |-> "initHandoutMode"],
    [name |-> "SAT", fn |-> "initSAT"],
    [name |-> "SubsetSum", fn |-> "initSubsetSum"],
    [name |-> "ReductionBelt", fn |-> "initReductionBelt"],
    [name |-> "Zoo", fn |-> "initZoo"],
    [name |-> "GraphColoring", fn |-> "initGraphColoring"],
    [name |-> "ScalingWall", fn |-> "initScalingWall"],
    [name |-> "Approximation", fn |-> "initApproxGame"],
    [name |-> "FPT", fn |-> "initFPTPlayground"]>>

\* safeInit without the try: what fn throws leaves safeInit
safeInit_NoCatch(name, throws) ==
  [line |-> [level |-> IF throws THEN "none" ELSE "debug", name |-> name],
   escaped |-> throws]

\* safeInit(name, fn), where fn throws or returns: the console line written,
\* and whether an exception leaves safeInit
safeInit(name, throws) ==
  [line |-> [level |-> IF throws THEN "error" ELSE "debug", name |-> name],
   escaped |-> FALSE]

\* the body of the listener from call k on; an exception that leaves a call
\* ends the listener
RECURSIVE ListenerFrom(_, _, _)
ListenerFrom(k, throwing, done) ==
  IF k > Len(BootCalls) THEN done
  ELSE LET r == safeInit(BootCalls[k].name, k \in throwing)
           now == [invoked |-> Append(done.invoked, BootCalls[k].fn),
                   console |-> IF r.line.level = "none" THEN done.console
                               ELSE Append(done.console, r.line)]
       IN IF r.escaped THEN now ELSE ListenerFrom(k + 1, throwing, now)

\* the DOMContentLoaded listener; which initializers throw depends on the page
DOMContentLoaded ==
  /\ ~domContentLoaded
  /\ domContentLoaded' = TRUE
  /\ \E throwing \in SUBSET (1..Len(BootCalls)) :
       LET r == ListenerFrom(1, throwing, [invoked |-> <<>>, console |-> <<>>])
       IN /\ bootInvoked' = r.invoked
          /\ bootConsole' = r.console
  /\ UNCHANGED nonBoot

BootNext == DOMContentLoaded

\* the page before the event
BootInit ==
  /\ domContentLoaded = FALSE
  /\ bootInvoked = <<>>
  /\ bootConsole = <<>>

BootIdle == BootInit

-----------------------------------------------------------------------------
(* Reference semantics of the grammar VAR | NOT e | e AND e | e OR e | ( e ) *)
(* by recursive descent: or-level, and-level, not-level, atom.              *)

RECURSIVE RefOr(_, _, _), RefOrTail(_, _, _, _), RefAnd(_, _, _), RefAndTail(_, _, _, _),
          RefNot(_, _, _), RefAtom(_, _, _)

RefFail == [ok |-> FALSE]

RefAtom(tokens, pos, env) ==
  IF pos > Len(tokens) THEN RefFail
  ELSE IF tokens[pos].t = "VAR"
       THEN [ok |-> TRUE, val |-> EnvGet(env, tokens[pos].v), pos |-> pos + 1]
  ELSE IF tokens[pos].t = "LP"
       THEN LET r == RefOr(tokens, pos + 1, env)
            IN IF r.ok /\ r.pos <= Len(tokens) /\ tokens[r.pos].t = "RP"
               THEN [ok |-> TRUE, val |-> r.val, pos |-> r.pos + 1]
               ELSE RefFail
  ELSE RefFail

RefNot(tokens, pos, env) ==
  IF pos <= Len(tokens) /\ tokens[pos].t = "NOT"
  THEN LET r == RefNot(tokens, pos + 1, env)
       IN IF r.ok THEN [ok |-> TRUE, val |-> ~r.val, pos |-> r.pos] ELSE RefFail
  ELSE RefAtom(tokens, pos, env)

RefAndTail(tokens, pos, env, acc) ==
  IF pos <= Len(tokens) /\ tokens[pos].t = "AND"
  THEN LET r == RefNot(tokens, pos + 1, env)
       IN IF r.ok THEN RefAndTail(tokens, r.pos, env, acc /\ r.val) ELSE RefFail
  ELSE [ok |-> TRUE, val |-> acc, pos |-> pos]

RefAnd(tokens, pos, env) ==
  LET r == RefNot(tokens, pos, env)
  IN IF r.ok THEN RefAndTail(tokens, r.pos, env, r.val) ELSE RefFail

RefOrTail(tokens, pos, env, acc) ==
  IF pos <= Len(tokens) /\ tokens[pos].t = "OR"
  THEN LET r == RefAnd(tokens, pos + 1, env)
       IN IF r.ok THEN RefOrTail(tokens, r.pos, env, acc \/ r.val) ELSE RefFail
  ELSE [ok |-> TRUE, val |-> acc, pos |-> pos]

RefOr(tokens, pos, env) ==
  LET r == RefAnd(tokens, pos, env)
  IN IF r.ok THEN RefOrTail(tokens, r.pos, env, r.val) ELSE RefFail

\* the token sequence is a sentence of the grammar
WellFormed(tokens) ==
  LET r == RefOr(tokens, 1, <<>>) IN r.ok /\ r.pos = Len(tokens) + 1

\* its truth value under env, for a well-formed token sequence
RefEval(tokens, env) == RefOr(tokens, 1, env).val

\* the variables of a token sequence
TokVars(tokens) == {tokens[k].v : k \in {j \in 1..Len(tokens) : tokens[j].t = "VAR"}}

\* the text is accepted by the tokenizer and its tokens form a sentence of the grammar
WellFormedInput(expr) ==
  LET tk == tokenize(expr) IN tk.ok /\ WellFormed(tk.tokens)

Tokens(expr) == tokenize(expr).tokens

\* the variables of a set, in ascending index order
RECURSIVE Ascending(_)
Ascending(S) ==
  IF S = {} THEN <<>>
  ELSE LET m == CHOOSE x \in S : \A y \in S : x <= y IN <<m>> \o Ascending(S \ {m})

HasKind(tokens, t) == \E k \in 1..Len(tokens) : tokens[k].t = t

-----------------------------------------------------------------------------
(* Specifications of the SAT playground *)

SatInputs == Inputs \cup {<<"x", " ", "1", "&", "x", "2">>}

\* the playground with a formula typed in and its toggles all off
SatInitTyped ==
  /\ cnfInput \in SatInputs
  /\ toggles = FreshToggles(cnfInput)
  /\ resultEl = ""
  /\ errorEl = NoError
  /\ witnessEl = <<>>
  /\ metricsEl = 0
  /\ lastOp = "none"
  /\ triedLog = <<>>

\* the playground with a formula typed in and its toggles clicked to any assignment
ParseInit ==
  /\ cnfInput \in Inputs
  /\ toggles \in [DOMAIN FreshToggles(cnfInput) -> BOOLEAN]
  /\ resultEl = ""
  /\ errorEl = NoError
  /\ witnessEl = <<>>
  /\ metricsEl = 0
  /\ lastOp = "none"
  /\ triedLog = <<>>

\* the subset-sum widget untouched
SsIdle == ssNums = <<>> /\ ssTarget = 0 /\ SsBlank

\* the SAT playground untouched
SatIdle ==
  /\ cnfInput = <<>>
  /\ toggles = <<>>
  /\ resultEl = ""
  /\ errorEl = NoError
  /\ witnessEl = <<>>
  /\ metricsEl = 0
  /\ lastOp = "none"
  /\ triedLog = <<>>

\* the SAT rail as initSAT leaves it
RailIdle == RailInit

\* the subset-sum rail as initSubsetSum leaves it
SpIdle == SpInit

\* SearchSpace with the effect of its first render run
SwIdle ==
  /\ swN = SliderMin
  /\ swPaths = factorial(SliderMin)
  /\ swTime = formatTime(factorial(SliderMin))
  /\ swBarHeight = [logOf |-> factorial(SliderMin), over |-> factorial(14)]
  /\ swPending = FALSE

\* CheckVsFind untouched
CvIdle == CvInit

\* the reductions gallery untouched
GalleryIdle == RgIdle /\ VcIdle

\* the corners of the lab untouched
\* the exhibits added later untouched, but for the one named g
MoreIdleBut(g) ==
  /\ (g = "wall" \/ WallIdle)
  /\ (g = "belt" \/ BeltIdle)
  /\ (g = "red" \/ RedIdle)
  /\ (g = "gc" \/ GcIdle)
  /\ (g = "rq" \/ RqIdle)
  /\ (g = "boot" \/ BootIdle)

LabIdle == AgIdle /\ FptIdle /\ MoreIdleBut("")

\* every exhibit untouched, but for the one named g
AllIdleBut(g) ==
  /\ SwIdle /\ CvIdle /\ GalleryIdle /\ AgIdle /\ FptIdle
  /\ RailIdle /\ SpIdle /\ SatIdle /\ SsIdle
  /\ MoreIdleBut(g)

\* the React stations and the gallery untouched
StationsIdle == SwIdle /\ CvIdle /\ GalleryIdle /\ LabIdle

\* the widgets that a specification leaves untouched
OthersIdleButSat == RailIdle /\ SpIdle /\ StationsIdle /\ SsIdle

OthersIdleButSs == RailIdle /\ SpIdle /\ StationsIdle /\ SatIdle

ParseNext == SatCheck

ParseSpecInit == OthersIdleButSat /\ ParseInit

SpecParse == ParseSpecInit /\ [][ParseNext]_vars

SatSpecInit == OthersIdleButSat /\ SatInitTyped

SpecSAT == SatSpecInit /\ [][SatNext]_vars

\* one search of one instance, the clock free to pass the cap at any moment
SsNext == SsFirstClick \/ SsStep

SsSpecInit == OthersIdleButSs /\ SsInit

SpecSS == SsSpecInit /\ [][SsNext]_vars

\* searches of one instance, one click after the other
SsAgainNext == SsClick \/ SsStep

SpecSSAgain == SsSpecInit /\ [][SsAgainNext]_vars

\* the SAT rail under any sequence of clicks
RailSpecInit == RailInit /\ SpIdle /\ StationsIdle /\ SatIdle /\ SsIdle

SpecRail == RailSpecInit /\ [][RailNext]_vars

-----------------------------------------------------------------------------
(* Claims about the SAT playground *)

SatText == "SAT (found assignment)"
UnsatText == "UNSAT (under brute-force search)"

Satisfiable(tokens) == \E env \in [TokVars(tokens) -> BOOLEAN] : RefEval(tokens, env)

\* C1: Solve is sound and complete. After Solve on a well-formed formula, the
\* result is SAT exactly when some assignment of the formula's variables makes
\* it true, the witness shown then makes it true, and otherwise it is UNSAT.
C1_SolveSoundComplete ==
  (lastOp = "solve" /\ WellFormedInput(cnfInput)) =>
    LET tokens == Tokens(cnfInput) IN
      /\ (resultEl = SatText) <=> Satisfiable(tokens)
      /\ (resultEl = SatText) => RefEval(tokens, witnessEl)
      /\ ~Satisfiable(tokens) => resultEl = UnsatText

\* C1 restricted to formulas whose variable names contain no white space, where
\* the variables found in the raw text are those of the tokens
C1_SolveNoInnerSpace ==
  (lastOp = "solve" /\ WellFormedInput(cnfInput)
     /\ TokVars(Tokens(cnfInput)) = DOMAIN toggles) =>
    LET tokens == Tokens(cnfInput) IN
      /\ (resultEl = SatText) <=> Satisfiable(tokens)
      /\ (resultEl = SatText) => RefEval(tokens, witnessEl)
      /\ ~Satisfiable(tokens) => resultEl = UnsatText

\* the masks over the formula's variables in ascending order that satisfy it
SatMasks(tokens) ==
  LET names == Ascending(TokVars(tokens))
  IN {m \in 0..(Pow2(Len(names)) - 1) : RefEval(tokens, EnvOfMask(names, m))}

MinOf(S) == CHOOSE x \in S : \A y \in S : x <= y

\* C2: Solve tries masks 0, 1, 2, ... in increasing order (bit i is the i-th
\* variable in ascending index order), stops at the first satisfying one, and
\* the count shown is the number of assignments evaluated: m+1 when the
\* smallest satisfying mask is m, 2^n when the formula is unsatisfiable.
C2_CounterOrder ==
  (lastOp = "solve" /\ WellFormedInput(cnfInput)) =>
    LET tokens == Tokens(cnfInput)
        names == Ascending(TokVars(tokens))
        sat == SatMasks(tokens)
    IN /\ metricsEl = Len(triedLog)
       /\ \A k \in 1..Len(triedLog) : triedLog[k] = k - 1
       /\ IF sat # {}
          THEN /\ metricsEl = MinOf(sat) + 1
               /\ witnessEl = EnvOfMask(names, MinOf(sat))
          ELSE metricsEl = Pow2(Len(names))

\* C2 restricted to formulas whose variable names contain no white space
C2_CounterNoInnerSpace ==
  (lastOp = "solve" /\ WellFormedInput(cnfInput)
     /\ TokVars(Tokens(cnfInput)) = DOMAIN toggles) =>
    LET tokens == Tokens(cnfInput)
        names == Ascending(TokVars(tokens))
        sat == SatMasks(tokens)
    IN /\ metricsEl = Len(triedLog)
       /\ \A k \in 1..Len(triedLog) : triedLog[k] = k - 1
       /\ IF sat # {}
          THEN /\ metricsEl = MinOf(sat) + 1
               /\ witnessEl = EnvOfMask(names, MinOf(sat))
          ELSE metricsEl = Pow2(Len(names))

\* the three kinds of malformed input the claim names, on the text without
\* white space: a parenthesis without its partner, an x not followed by a digit
\* 1..9, an operator lacking an operand
RECURSIVE Depths(_, _, _)
Depths(src, i, d) ==
  IF i > Len(src) THEN d = 0
  ELSE IF src[i] = "(" THEN Depths(src, i + 1, d + 1)
  ELSE IF src[i] = ")" THEN d > 0 /\ Depths(src, i + 1, d - 1)
  ELSE Depths(src, i + 1, d)

Unbalanced(src) == ~Depths(src, 1, 0)

UnknownVar(src) ==
  \E i \in 1..Len(src) : src[i] = "x" /\ ~(i < Len(src) /\ IsDigit19(src[i + 1]))

Dangling(src) ==
  \E i \in 1..Len(src) :
    \/ /\ src[i] \in {"!", "&", "|"}
       /\ (i = Len(src) \/ src[i + 1] \in {")", "&", "|"})
    \/ /\ src[i] \in {"&", "|"}
       /\ (i = 1 \/ src[i - 1] \in {"(", "!"})

NamedMalformed(expr) ==
  LET src == StripWS(expr) IN Unbalanced(src) \/ UnknownVar(src) \/ Dangling(src)

\* C3: malformed input (unbalanced parentheses, unknown variable index, dangling
\* operator) fails with a parse error that names a position and never yields a
\* truth value.
C3_MalformedRejected ==
  (lastOp = "check" /\ NamedMalformed(cnfInput)) =>
    /\ resultEl = "-"
    /\ errorEl # NoError
    /\ "pos" \in DOMAIN errorEl

\* C3, its second half alone: a malformed input of the three kinds never yields
\* a truth value
C3_NoTruthValue ==
  (lastOp = "check" /\ NamedMalformed(cnfInput)) => resultEl = "-"

\* the three kinds are malformed: none is a sentence of the grammar
NamedAreMalformed == NamedMalformed(cnfInput) => ~WellFormedInput(cnfInput)

-----------------------------------------------------------------------------
(* Claims about the subset-sum search *)

SsFound == ssResult # Null

\* C5: a search aborted by the time cap hands back a result and shows a message
\* that differ from those of a search that exhausted the space without finding
\* a subset.
C5_TimeoutDistinct ==
  (ssPc = "done" /\ {ssPrev.kind, SsOutcome.kind} = {"aborted", "exhausted"}) =>
    (ssResult # ssPrev.result \/ ssMessage # ssPrev.message)

\* how often x occurs in the sequence s
Count(s, x) == Cardinality({k \in 1..Len(s) : s[k] = x})

SubMultiset(w, nums) == \A k \in 1..Len(w) : Count(w, w[k]) <= Count(nums, w[k])

\* C6: a witness returned is a sub-multiset of the input that sums to the
\* target, and on entry of every dfs call the running sum is the sum of the
\* input values at the indices on take, no index twice.
C6_WitnessSound ==
  /\ (ssPc = "done" /\ SsFound) =>
       /\ SubMultiset(ssResult.v, ssNums)
       /\ SumSeq(ssResult.v) = ssTarget
  /\ (ssPc = "run" /\ ssStack # <<>> /\ SsTop.pc = "entry") =>
       /\ SsTop.sum = SumSeq([k \in 1..Len(ssTake) |-> ssNums[ssTake[k]]])
       /\ \A j, k \in 1..Len(ssTake) : j # k => ssTake[j] # ssTake[k]
       /\ \A k \in 1..Len(ssTake) : ssTake[k] \in 1..Len(ssNums)

\* a witness of two numbers that leaves a number of the input out
C6_Witness ==
  /\ ssPc = "done"
  /\ SsFound
  /\ Len(ssResult.v) = 2
  /\ Len(ssNums) = 3
  /\ ssTarget # 0

\* some subset of the positions of nums sums to target
HasSubset(nums, target) ==
  \E S \in SUBSET (1..Len(nums)) :
    SumSeq([k \in 1..Len(nums) |-> IF k \in S THEN nums[k] ELSE 0]) = target

\* C7: when no dfs call sees the cap exceeded, the search returns no witness
\* exactly when no subset of the input (the empty one included) sums to the
\* target.
C7_Complete ==
  (ssPc = "done" /\ ~ssTimedOut) => ((ssResult = Null) <=> ~HasSubset(ssNums, ssTarget))

\* a subset found on a skip branch: the largest number is not part of it
C7_Witness ==
  /\ ssPc = "done"
  /\ ~ssTimedOut
  /\ SsFound
  /\ Len(ssNums) >= 2
  /\ ssResult.v # <<>>
  /\ ssResult.v[1] # vals(ssNums)[1]

\* C8: after the first dfs call that sees the cap exceeded nothing is pushed on
\* take, at most one further dfs call is made per frame that was open at that
\* moment (at most n in all), and no witness is returned.
C8_CooperativeCancel ==
  ssTimedOut =>
    /\ ssExpired
    /\ ssAfter.pushes = 0
    /\ ssAfter.calls <= ssAfter.frames
    /\ ssAfter.frames <= Len(ssNums)
    /\ ssPc = "done" => ssResult = Null

\* a search cut short two frames deep that misses a subset that exists
C8_Witness ==
  /\ ssPc = "done"
  /\ ssTimedOut
  /\ ssAfter.calls >= 2
  /\ HasSubset(ssNums, ssTarget)

\* the position of input position a in descending order of absolute value, equal
\* absolute values in input order
Rank(nums, a) ==
  1 + Cardinality({b \in 1..Len(nums) :
                     \/ Abs(nums[b]) > Abs(nums[a])
                     \/ Abs(nums[b]) = Abs(nums[a]) /\ b < a})

\* the numbers in that order
Ranked(nums) ==
  [r \in 1..Len(nums) |-> nums[CHOOSE a \in 1..Len(nums) : Rank(nums, a) = r]]

\* depth-first order, include before exclude, of two sets of ranks: a set comes
\* first when it takes the first rank they differ on and the other goes on past
\* it, or when it ends before that rank
DfsBefore(T1, T2) ==
  LET d == MinOf((T1 \ T2) \cup (T2 \ T1))
  IN IF d \in T1 THEN \E e \in T2 : e > d ELSE ~\E e \in T1 : e > d

SumOfRanks(nums, T) ==
  SumSeq([r \in 1..Len(nums) |-> IF r \in T THEN Ranked(nums)[r] ELSE 0])

\* the first set of ranks in depth-first order that sums to target, as values
FirstWitness(nums, target) ==
  LET hits == {T \in SUBSET (1..Len(nums)) : SumOfRanks(nums, T) = target}
      T0 == CHOOSE T \in hits : \A U \in hits \ {T} : DfsBefore(T, U)
  IN [k \in 1..Cardinality(T0) |-> Ranked(nums)[Ascending(T0)[k]]]

Reorderings(n) == {p \in [1..n -> 1..n] : \A j, k \in 1..n : j # k => p[j] # p[k]}

\* C9: with no timeout the witness is the first subset, in depth-first order over
\* the numbers sorted by descending absolute value with include tried before
\* exclude, whose sum is the target, given as input values; and whether a
\* witness is found is the same for every reordering of the input.
C9_OrderAndFirst ==
  (ssPc = "done" /\ ~ssTimedOut) =>
    /\ SsFound => ssResult.v = FirstWitness(ssNums, ssTarget)
    /\ \A p \in Reorderings(Len(ssNums)) :
         (BacktrackFn([k \in 1..Len(ssNums) |-> ssNums[p[k]]], ssTarget) # Null) <=> SsFound

\* a witness of a search whose sort moved the numbers and which had to back out
\* of the branch of the largest number
C9_Witness ==
  /\ ssPc = "done"
  /\ ~ssTimedOut
  /\ SsFound
  /\ ssNums = <<1, -2, 3>>
  /\ ssTarget = -2
  /\ ssResult.v = <<-2>>

-----------------------------------------------------------------------------
(* C10 *)

\* C10: a Solve of the rail is a function of the formula alone. Whatever the
\* toggles were and whatever clicks came before, the verdict, the witness and
\* the count of assignments checked that a Solve shows are those that any
\* earlier Solve of the same formula showed.
C10_SolvePure ==
  (/\ railOp = "solve"
   /\ railFirst.seen
   /\ PRESETS[railFirst.preset].formula = PRESETS[current].formula) =>
    /\ railRes = railFirst.res
    /\ railMetrics = railFirst.shown

\* a Solve of the unsatisfiable preset, which leaves the toggles alone, ended
\* with toggles other than those the remembered Solve of that preset started from
C10_Witness ==
  /\ railOp = "solve"
  /\ PRESETS[current].id = "unsat"
  /\ railFirst.seen
  /\ railFirst.preset = current
  /\ railFirst.before # railToggles
  /\ railMetrics.kind = "unsat"
  /\ railMetrics.checked = 2

-----------------------------------------------------------------------------
(* C11 *)

\* the two rails of the verify page, presets picked and solved
PresetsNext == RailPreset \/ RailSolve \/ RailReset \/ SpPreset \/ SpCheck \/ SpReveal

PresetsSpecInit == RailInit /\ SpInit /\ StationsIdle /\ SatIdle /\ SsIdle

SpecPresets == PresetsSpecInit /\ [][PresetsNext]_vars

\* C11: every built-in preset gets the outcome it declares. A Solve of a SAT
\* preset shows SAT exactly when the preset expects SAT, and the preset
\* (x1) & (!x1) shows UNSAT after exactly 2 assignments; a search of a
\* subset-sum preset that did not time out yields a subset exactly when the
\* preset expects SAT, and none for [5, 7, 11] with target 3.
C11_PresetsAsExpected ==
  /\ railOp = "solve" =>
       /\ (railMetrics.kind = "sat") <=> (PRESETS[current].expect = "SAT")
       /\ (railMetrics.kind = "unsat") <=> (PRESETS[current].expect = "UNSAT")
       /\ PRESETS[current].formula = Formula_unsat =>
            (railMetrics.kind = "unsat" /\ railMetrics.checked = 2)
  /\ (spOp \in {"check", "reveal"} /\ ~spTimedOut) =>
       /\ (spWitness.kind = "subset") <=> (SubsetPRESETS[spCurrent].expect = "SAT")
       /\ spWitness.kind = "subset" =>
            SumSeq(spWitness.subset) = SubsetPRESETS[spCurrent].target
       /\ (SubsetPRESETS[spCurrent].nums = <<5, 7, 11>>
           /\ SubsetPRESETS[spCurrent].target = 3) => spWitness.kind = "none"

\* the unsatisfiable formula solved on one rail and the preset without a
\* solution searched to the end on the other
C11_Witness ==
  /\ railOp = "solve"
  /\ PRESETS[current].id = "unsat"
  /\ railMetrics.checked = 2
  /\ spOp = "check"
  /\ ~spTimedOut
  /\ SubsetPRESETS[spCurrent].id = "nosol"
  /\ spRes = "No subset (within demo search)"

\* some SAT preset solved and some SAT subset-sum preset searched to the end
C11_WitnessSat ==
  /\ railOp = "solve"
  /\ PRESETS[current].id = "tricky"
  /\ railMetrics.kind = "sat"
  /\ spOp = "reveal"
  /\ ~spTimedOut
  /\ SubsetPRESETS[spCurrent].id = "tricky"
  /\ spWitness.subset = <<5, 4>>

-----------------------------------------------------------------------------
(* C12 *)

SwSpecInit == LabIdle /\ SwInit /\ CvIdle /\ GalleryIdle /\ RailIdle /\ SpIdle /\ SatIdle /\ SsIdle

SpecSearchSpace == SwSpecInit /\ [][SwNext]_vars

\* C12: once the effect has run, the path count shown for the slider value n
\* is n! exactly and not (n-1)!/2, it is larger than the count of every
\* smaller slider value, and it is below 2^53, where every integer is held
\* exactly; this holds up to the largest value 14! = 87 178 291 200.
C12_PathsAreFactorial ==
  ~swPending =>
    /\ swN \in SliderMin..SliderMax
    /\ swPaths = Product(1, swN)
    /\ swPaths # BigDiv(Product(1, swN - 1), 2)
    /\ \A m \in SliderMin..(swN - 1) : BigLess(factorial(m), swPaths)
    /\ swPaths # Inexact
    /\ BigLess(swPaths, TwoTo53)
    /\ swN = SliderMax => swPaths = <<200, 291, 178, 87>>

\* the slider at its largest value with the effect run
C12_Witness ==
  /\ ~swPending
  /\ swN = SliderMax
  /\ swPaths = <<200, 291, 178, 87>>
  /\ swTime = [unit |-> "days", shown |-> BigOf(10)]

-----------------------------------------------------------------------------
(* C13, C14, C15 *)

CvSpecInit == LabIdle /\ CvInit /\ SwIdle /\ GalleryIdle /\ RailIdle /\ SpIdle /\ SatIdle /\ SsIdle

SpecCheckVsFind == CvSpecInit /\ [][CvNext]_vars

ValidText == "Verifying... Valid! You found it."

\* the undirected graph of the station
Joined(a, b) == {a, b} \in {{edges[k].source, edges[k].target} : k \in 1..Len(edges)}

\* the path visits all six nodes, each once, along edges
Hamiltonian(path) ==
  /\ Len(path) = Cardinality(nodes)
  /\ {path[k] : k \in 1..Len(path)} = nodes
  /\ \A k \in 1..(Len(path) - 1) : Joined(path[k], path[k + 1])

\* C13: the message 'Verifying... Valid! You found it.' is on the page only
\* while the user path is a Hamiltonian path of the graph, after any sequence
\* of node clicks, Clear, Check My Path, phase changes and Reset.
C13_ValidOnlyForHamiltonian ==
  (phase = "find" /\ message = ValidText) => Hamiltonian(userPath)

\* the message as set by a Check My Path click: at that moment the path is a
\* Hamiltonian path
C13_ValidWhenSubmitted ==
  (cvOp = "submit" /\ message = ValidText) => Hamiltonian(userPath)

\* a Hamiltonian path submitted and accepted
C13_Witness ==
  /\ cvOp = "submit"
  /\ message = ValidText
  /\ status = "success"
  /\ userPath = <<3, 1, 2, 5, 4, 6>>

InPath(path, nodeId) == \E k \in 1..Len(path) : path[k] = nodeId

\* C14: the user path never holds a node twice and every two consecutive nodes
\* of it are joined by an edge; a click on a node that is neither in the path
\* nor adjacent to its last node leaves the path as it was; and the message
\* 'Invalid: Visited a city twice.' never appears.
C14_PathIsSimpleAndConnected ==
  /\ \A j, k \in 1..Len(userPath) : j # k => userPath[j] # userPath[k]
  /\ \A k \in 1..(Len(userPath) - 1) : Joined(userPath[k], userPath[k + 1])
  /\ (/\ cvOp = "click"
      /\ cvBefore # <<>>
      /\ ~InPath(cvBefore, cvClicked)
      /\ ~Joined(cvBefore[Len(cvBefore)], cvClicked)) => userPath = cvBefore
  /\ message # "Invalid: Visited a city twice."

\* a click in the find phase on a node that is not adjacent to the end of a
\* path of three nodes
C14_Witness ==
  /\ phase = "find"
  /\ cvOp = "click"
  /\ cvBefore = <<1, 2, 4>>
  /\ cvClicked = 3
  /\ userPath = <<1, 2, 4>>

\* C15: a click on a node that is in the user path removes that node and
\* everything after it, so that the node is not part of the path afterwards.
C15_BacktrackRemovesClicked ==
  (cvOp = "click" /\ phase = "find" /\ InPath(cvBefore, cvClicked)) =>
    /\ ~InPath(userPath, cvClicked)
    /\ userPath = SubSeq(cvBefore, 1, indexOf(cvBefore, cvClicked))

\* what the click does: the path is cut after the clicked node, which stays
C15_BacktrackKeepsClicked ==
  (cvOp = "click" /\ phase = "find" /\ InPath(cvBefore, cvClicked)) =>
    /\ userPath = SubSeq(cvBefore, 1, indexOf(cvBefore, cvClicked) + 1)
    /\ userPath[Len(userPath)] = cvClicked

-----------------------------------------------------------------------------
(* C16 *)

RgSpecInit == LabIdle /\ SwIdle /\ CvIdle /\ VcIdle /\ RailIdle /\ SpIdle /\ SatIdle /\ SsIdle /\ RgInit

SpecClique == RgSpecInit /\ [][RgBuild]_vars

\* a literal is true under an assignment of x1..x5
LitTrue(L, a) == IF L[1] = "!" THEN ~a[L[Len(L)]] ELSE a[L[Len(L)]]

\* some assignment makes a literal of every clause true
CnfSatisfiable(clauses) ==
  \E a \in [{"1", "2", "3", "4", "5"} -> BOOLEAN] :
    \A i \in 1..Len(clauses) : \E j \in 1..Len(clauses[i]) : LitTrue(clauses[i][j], a)

\* C16: for every formula parse3CNF accepts, the builder reports 'k-clique
\* exists' with k the number of clauses exactly when the formula is
\* satisfiable; for the accepted texts that are sentences of the formula
\* grammar, satisfiable as the reference evaluator has it.
C16_CliqueIffSatisfiable ==
  (rgResult # NoVerdict) =>
    /\ parse3CNF(rgInput).ok
    /\ rgResult.k = Len(parse3CNF(rgInput).clauses)
    /\ rgResult.k \in 1..3
    /\ (rgResult.text = "k-clique exists")
         <=> CnfSatisfiable(parse3CNF(rgInput).clauses)
    /\ WellFormedInput(rgInput) =>
         ((rgResult.text = "k-clique exists") <=> Satisfiable(Tokens(rgInput)))

\* three clauses over two variables that no assignment satisfies
C16_Witness ==
  /\ rgResult = [text |-> "No k-clique found", k |-> 3]
  /\ rgInput = <<"(", "x", "1", "|", "x", "2", ")", "&", "(", "!", "x", "1", ")", "&", "(", "!", "x", "2", ")">>
  /\ Len(rgGraph.nodes) = 4

\* three clauses that an assignment satisfies
C16_WitnessSat ==
  /\ rgResult = [text |-> "k-clique exists", k |-> 3]
  /\ rgInput = <<"(", "x", "4", "|", "x", "5", ")", "&", "(", "!", "x", "4", "|", "!", "x", "5", ")", "&", "(", "x", "4", "|", "!", "x", "5", ")">>

-----------------------------------------------------------------------------
(* C17 *)

VcSpecInit == LabIdle /\ SwIdle /\ CvIdle /\ RgIdle /\ RailIdle /\ SpIdle /\ SatIdle /\ SsIdle /\ VcInit

SpecCliqueCover == VcSpecInit /\ [][CvCheck]_vars

\* the edges es on the vertices 1..n have a vertex cover of at most size vertices
HasVertexCover(n, es, size) ==
  \E S \in SUBSET (1..n) :
    /\ Cardinality(S) <= size
    /\ \A k \in 1..Len(es) : es[k][1] \in S \/ es[k][2] \in S

\* the edges of the complement on 1..n of the graph with edges es
ComplementEdges(n, es) ==
  {<<a, b>> \in (1..n) \X (1..n) :
     a < b /\ \A k \in 1..Len(es) : es[k] # <<a, b>> /\ es[k] # <<b, a>>}

\* C17: whenever the checker reports that G has a clique of size k, G on the
\* vertices 1..n has a vertex cover of size |V| - k, as the output says.
C17_CliqueGivesCover ==
  (cvOut.text = "G has a clique of size k") =>
    /\ cvOut.vcSize = parseEdges(cvEdges).n - cvOut.k
    /\ HasVertexCover(parseEdges(cvEdges).n, parseEdges(cvEdges).edges, cvOut.vcSize)

\* what a clique of size k gives: a vertex cover of size |V| - k of the
\* complement of G
C17_CliqueGivesCoverOfComplement ==
  (cvOut.text = "G has a clique of size k") =>
    \E S \in SUBSET (1..parseEdges(cvEdges).n) :
      /\ Cardinality(S) <= cvOut.vcSize
      /\ \A e \in ComplementEdges(parseEdges(cvEdges).n, parseEdges(cvEdges).edges) :
           e[1] \in S \/ e[2] \in S

-----------------------------------------------------------------------------
(* C18 *)

OthersIdleButAg ==
  SwIdle /\ CvIdle /\ GalleryIdle /\ FptIdle /\ MoreIdleBut("") /\ RailIdle /\ SpIdle /\ SatIdle
  /\ SsIdle

ScSpecInit == OthersIdleButAg /\ AgInit("sc")

SpecSetCover == ScSpecInit /\ [][AgNext]_vars

\* the sets of the family with the indices P, counted from 0, cover U
CoversU(P) ==
  UNION {agSets.v[i + 1] : i \in P} = {agU.v[k] : k \in 1..Len(agU.v)}

WholeFamily == 0..(Len(agSets.v) - 1)

Subfamilies == SUBSET WholeFamily

\* what the claim says of an instance and the output shown for it
OptimalSCAsClaimed ==
  /\ agOut.picked \in Subfamilies
  /\ Cardinality(agOut.picked) = agOut.size
  /\ CoversU(agOut.picked)
  /\ \A P \in Subfamilies : CoversU(P) => Cardinality(P) >= agOut.size
  /\ agOut.worse =>
       /\ CoversU(Shown(scGreedy(agU.v, agSets.v)))
       /\ Len(scGreedy(agU.v, agSets.v)) > agOut.size

\* C18: for every set cover instance generated, the family shown as Optimal SC
\* covers U and is a smallest covering subfamily, and the greedy pick is called
\* worse only when it is a cover strictly larger than that optimum.
C18_OptimalSetCover == (agOut.text = "Optimal SC") => OptimalSCAsClaimed

\* the same, for the instances whose family covers U
C18_OptimalWhenCoverable ==
  (agOut.text = "Optimal SC" /\ CoversU(WholeFamily)) => OptimalSCAsClaimed

-----------------------------------------------------------------------------
(* C19 *)

ApproxVcSpecInit == OthersIdleButAg /\ AgInit("vc")

SpecVertexCover == ApproxVcSpecInit /\ [][AgNext]_vars

\* S touches every edge of the graph generated
TouchesEveryEdge(S) ==
  \A k \in 1..Len(agG.v.edges) : agG.v.edges[k][1] \in S \/ agG.v.edges[k][2] \in S

\* the size of a smallest set of the vertices 1..n touching every edge
MinCoverSize ==
  CHOOSE c \in 0..agG.v.n :
    /\ \E S \in SUBSET (1..agG.v.n) : Cardinality(S) = c /\ TouchesEveryEdge(S)
    /\ \A S \in SUBSET (1..agG.v.n) : TouchesEveryEdge(S) => Cardinality(S) >= c

\* C19: for every graph generated, vcGreedy returns a set touching every edge,
\* vcExact returns a vertex cover of minimum size, the greedy cover is never
\* smaller than it, and the outputs show these sets.
C19_GreedyAndExactCovers ==
  /\ (~agG.isNull) =>
       /\ TouchesEveryEdge(Shown(vcGreedy(agG.v)))
       /\ TouchesEveryEdge(Shown(vcExact(agG.v)))
       /\ Shown(vcExact(agG.v)) \subseteq 1..agG.v.n
       /\ Len(vcExact(agG.v)) = MinCoverSize
       /\ Cardinality(Shown(vcExact(agG.v))) = MinCoverSize
       /\ Len(vcGreedy(agG.v)) >= Len(vcExact(agG.v))
  /\ (agOut.text = "Greedy VC") =>
       TouchesEveryEdge(agOut.picked) /\ agOut.size >= MinCoverSize
  /\ (agOut.text = "Optimal VC") =>
       /\ TouchesEveryEdge(agOut.picked)
       /\ agOut.size = MinCoverSize
       /\ agOut.worse => TouchesEveryEdge(Shown(vcGreedy(agG.v)))

\* the optimum {2, 3} of the path 4-2-1-3-5 is shown, where greedy took 1 first
\* and ended with three vertices
C19_Witness ==
  /\ agOut.text = "Optimal VC"
  /\ agG.v.edges = <<<<1, 2>>, <<1, 3>>, <<2, 4>>, <<3, 5>>>>
  /\ agOut.picked = {2, 3}
  /\ agOut.worse
  /\ Len(vcGreedy(agG.v)) = 3

-----------------------------------------------------------------------------
(* C20 *)

FptSpecInit ==
  SwIdle /\ CvIdle /\ GalleryIdle /\ AgIdle /\ MoreIdleBut("") /\ RailIdle /\ SpIdle /\ SatIdle
  /\ SsIdle /\ FptInit

SpecKernel == FptSpecInit /\ [][FptNext]_vars

\* the graph kept has k vertices among V that are joined pairwise
CliqueAmong(V, k) ==
  \E S \in SUBSET V :
    /\ Cardinality(S) = k
    /\ \A a, b \in S : a # b =>
         \E j \in 1..Len(fptEdges) : fptEdges[j] = <<a, b>> \/ fptEdges[j] = <<b, a>>

\* the edges of the graph kept with no end among R
EdgesOutside(R) ==
  {j \in 1..Len(fptEdges) : fptEdges[j][1] \notin R /\ fptEdges[j][2] \notin R}

\* C20: for k >= 2, the graph of a k-clique run has a k-clique exactly when the
\* graph left after the vertices the kernelization removed are deleted has one;
\* the run says so, and counts what is left.
C20_KernelKeepsCliques ==
  (fptOut.text = "k-Clique" /\ fptOut.k >= 2) =>
    /\ fptOut.removed \subseteq 1..fptRunN
    /\ CliqueAmong(1..fptRunN, fptOut.k) <=>
         CliqueAmong((1..fptRunN) \ fptOut.removed, fptOut.k)
    /\ fptOut.found <=> CliqueAmong((1..fptRunN) \ fptOut.removed, fptOut.k)
    /\ fptOut.remainingE = Cardinality(EdgesOutside(fptOut.removed))

\* the triangle 1, 2, 3 with 4 hanging from 3: for k = 3 vertex 4 is removed
\* and the triangle is found
C20_Witness ==
  /\ fptOut.text = "k-Clique" /\ fptOut.k = 3 /\ fptOut.found
  /\ fptEdges = <<<<1, 2>>, <<1, 3>>, <<2, 3>>, <<3, 4>>>>
  /\ fptOut.removed = {4}
  /\ fptOut.remainingV = 3

\* the path 1-2-3-4: for k = 3 every edge goes and no triangle is found
C20_WitnessNone ==
  /\ fptOut.text = "k-Clique" /\ fptOut.k = 3 /\ ~fptOut.found
  /\ fptEdges = <<<<1, 2>>, <<2, 3>>, <<3, 4>>>>
  /\ fptOut.removed # {}
  /\ fptOut.remainingE = 0

-----------------------------------------------------------------------------
(* C21, C22 *)

WallSpecInit == AllIdleBut("wall") /\ WallInit

SpecWall == WallSpecInit /\ [][WallNext]_vars

\* a literal of the last instance holds under the assignment a
LiteralHolds(L, a) == IF L.neg THEN ~a[L.v] ELSE a[L.v]

\* the assignment a makes every clause of the last instance true
SatisfiesLast(a) ==
  \A c \in 1..Len(wallLast.inst) : \E j \in 1..3 : LiteralHolds(wallLast.inst[c][j], a)

\* a dfs call of the last search read the clock past the cap
Abandoned == wallLast.expiry <= wallLast.res.calls

\* C21: when no dfs call sees the cap exceeded, satBacktrack returns an
\* assignment exactly when one of the 2^n assignments satisfies every clause,
\* and the assignment it returns satisfies every clause.
C21_BacktrackAgreesWithTruthTable ==
  (wallLast.problem = "SAT" /\ ~Abandoned) =>
    /\ (~wallLast.res.sol.isNull) <=> \E a \in [1..wallLast.n -> BOOLEAN] : SatisfiesLast(a)
    /\ (~wallLast.res.sol.isNull) => SatisfiesLast(wallLast.res.sol.v)

\* an instance with no satisfying assignment was searched to the end
C21_Witness ==
  /\ wallLast.problem = "SAT" /\ ~Abandoned /\ wallLast.n = 2
  /\ wallLast.res.sol.isNull
  /\ wallLog.work = 10

\* x2 has to be true and x1 false: the search returns that assignment
C21_WitnessSat ==
  /\ wallLast.problem = "SAT" /\ ~Abandoned /\ wallLast.n = 2
  /\ wallLast.res.sol = Some(<<FALSE, TRUE>>)
  /\ \A a \in [1..2 -> BOOLEAN] : SatisfiesLast(a) => a = <<FALSE, TRUE>>

\* C22: the timeout flag shown is true exactly when a dfs call of the search
\* saw the cap exceeded; a search that ran to its end is never shown as timed
\* out.
C22_TimeoutIffAbandoned ==
  (wallLog.problem = "SAT") => (wallLog.timeout <=> Abandoned)

\* an abandoned search is always shown as timed out
C22_AbandonedIsTimeout ==
  (wallLog.problem = "SAT" /\ Abandoned) => wallLog.timeout

-----------------------------------------------------------------------------
(* C23 *)

\* the six fields of the station as they are when it is mounted
AsMounted ==
  /\ phase = "verify" /\ userPath = <<>> /\ checks = 0
  /\ attempts = 0 /\ message = "" /\ status = "idle"

\* what holds of every state of the station
PhaseInvariant ==
  /\ phase = "find" => checks >= 1
  /\ phase = "verify" => userPath = <<>>
  /\ cvOp = "reset" => AsMounted

\* what holds of every step of the station
PhaseStep ==
  /\ (phase = "verify" /\ phase' = "find") => (status = "success" /\ checks >= 1)
  /\ (phase = "find" /\ phase' = "verify") => cvOp' = "reset"
  /\ cvOp' = "reset" => AsMounted'

\* C23: the find phase is entered only after a Verify click has succeeded,
\* the path stays empty while the phase is verify, the phase goes back to
\* verify only through Reset, and Reset restores the state of the mounted station.
C23_PhaseDiscipline == []PhaseInvariant /\ [][PhaseStep]_vars

\* Reset has acted
C23_Witness == cvOp = "reset" /\ AsMounted

\* the find phase with a path under way and a rejected attempt
C23_WitnessFind ==
  phase = "find" /\ Len(userPath) = 3 /\ attempts >= 1 /\ status = "error" /\ checks >= 1

-----------------------------------------------------------------------------
(* C24 *)

BeltSpecInit == AllIdleBut("belt") /\ BeltInit

SpecBelt == BeltSpecInit /\ [][BeltNext]_vars

\* the six reductions the conveyor lists
ListedReductions ==
  {<<"3sat", "clique">>, <<"clique", "vc">>, <<"vc", "is">>, <<"is", "3color">>,
   <<"3sat", "hamil">>, <<"hamil", "3color">>}

\* how often the problem p is on the belt seq
TimesOn(seq, p) == Cardinality({i \in 1..Len(seq) : seq[i] = p})

\* C24: a belt that is not empty is reported as valid exactly when every pair
\* of neighbours on it is one of the six listed reductions; a drop changes the
\* order of the belt only, and Clear empties it.
C24_ValidIffListed ==
  /\ (Len(beltSeq) > 0) =>
       ((beltStats.text = "Pipeline valid.") <=>
          \A i \in 1..(Len(beltSeq) - 1) : <<beltSeq[i], beltSeq[i + 1]>> \in ListedReductions)
  /\ (beltOp = "drop") =>
       /\ Len(beltSeq) = Len(beltBefore)
       /\ \A p \in BeltProblems : TimesOn(beltSeq, p) = TimesOn(beltBefore, p)
  /\ (beltOp = "clear") => beltSeq = <<>>

\* the chain 3-SAT, CLIQUE, Vertex Cover is on the belt and valid after
\* Vertex Cover was dragged from the front to the end
C24_Witness ==
  /\ beltOp = "drop"
  /\ beltBefore = <<"vc", "3sat", "clique">>
  /\ beltSeq = <<"3sat", "clique", "vc">>
  /\ beltStats.text = "Pipeline valid."

\* a belt with a pair that is no listed reduction is reported to have gaps
C24_WitnessGaps ==
  beltSeq = <<"clique", "3sat">> /\ beltStats.text = "Pipeline has gaps."

-----------------------------------------------------------------------------
(* C25, C26 *)

RedSpecInit == AllIdleBut("red") /\ RedInit

SpecReductions == RedSpecInit /\ [][RedNext]_vars

CorrectText == "Correct! This gadget forces at least one input to be true."

\* C25: whenever the step of the task is success, the gadget selected is
\* gadget 2 and the feedback shown is the Correct! message.
C25_SuccessShowsCorrect ==
  (taskStep = "success") => (selectedGadget = 2 /\ feedback = CorrectText)

\* the step becomes success only by a click on gadget 2, and stays success
C25_SuccessOnlyByGadget2 ==
  [][/\ (taskStep # "success" /\ taskStep' = "success") =>
          (redOp'.op = "gadget" /\ redOp'.id = 2)
     /\ (taskStep = "success") => (taskStep' = "success")]_vars

\* C26: a target is selected only while a source is, the target is never the
\* source, the reduction is shown exactly when a target is selected and names
\* the source and target selected, and a click on the source selected clears
\* source, target and reduction together.
C26_MapSelection ==
  /\ (selectedTarget # "") => (selectedSource # "" /\ selectedTarget # selectedSource)
  /\ (reductionInfo # NoInfo) <=> (selectedTarget # "")
  /\ (reductionInfo # NoInfo) =>
       (reductionInfo.source = selectedSource /\ reductionInfo.target = selectedTarget)
  /\ (redOp.op = "node" /\ selectedSource = "") =>
       (selectedTarget = "" /\ reductionInfo = NoInfo)

\* PATH was the source and 3-SAT the target, a pair the list does not have
C26_Witness ==
  /\ selectedSource = "PATH" /\ selectedTarget = "3SAT"
  /\ reductionInfo.description = "Reduction exists but not detailed here."

\* the source was clicked again while a target was selected
C26_WitnessCleared ==
  redOp.op = "node" /\ selectedSource = "" /\ selectedTarget = "" /\ taskStep = "success"

-----------------------------------------------------------------------------
(* C27 *)

\* the clauses of the four presets of the rail: v for xv, -v for !xv
PresetClauses ==
  <<<<{1, 2}, {-1, 3}>>,
    <<{1, -2, 3}, {-1, 2, 3}, {2, -3}>>,
    <<{1}, {-1}>>,
    <<{1, 2}, {2, 3}>>>>

\* the clause c is true under the toggles
ClauseTrue(c) ==
  \E l \in c : IF l > 0 THEN railToggles[l] ELSE ~railToggles[-l]

\* each light is on exactly when its clause is true; a Solve that reports SAT
\* leaves the witness on the toggles and every light on
LightsFollowToggles ==
  /\ Len(railLights) = Len(PresetClauses[current])
  /\ \A k \in 1..Len(railLights) : railLights[k] <=> ClauseTrue(PresetClauses[current][k])
  /\ (railOp = "solve" /\ railRes = "SAT (witness below)") =>
       /\ railMetrics.kind = "sat"
       /\ \A v \in DOMAIN railToggles : railToggles[v] = railMetrics.witness[v]
       /\ \A k \in 1..Len(railLights) : railLights[k]

\* a toggle click flips one variable and leaves the others
ToggleFlipsOne ==
  (railOp' = "toggle") =>
    /\ DOMAIN railToggles' = DOMAIN railToggles
    /\ \E v \in DOMAIN railToggles :
         /\ railToggles'[v] = ~railToggles[v]
         /\ \A w \in DOMAIN railToggles : w # v => railToggles'[w] = railToggles[w]

\* C27: each clause light is on exactly when that clause of the current preset
\* is true under the toggles, a toggle click flips only its own variable, and
\* after Solve reports SAT the toggles are the witness and every light is on.
C27_LightsAndToggles == []LightsFollowToggles /\ [][ToggleFlipsOne]_vars

\* the tricky preset with x1 and x3 toggled on: the second light is off
C27_Witness ==
  /\ railOp = "toggle" /\ PRESETS[current].id = "tricky"
  /\ railToggles = <<TRUE, FALSE, TRUE>>
  /\ railLights = <<TRUE, TRUE, FALSE>>

\* Solve of the easy preset reported SAT from toggles that were all on
C27_WitnessSolved ==
  /\ railOp = "solve" /\ railRes = "SAT (witness below)" /\ PRESETS[current].id = "easy"
  /\ railFirst.seen /\ railFirst.before = <<TRUE, TRUE, TRUE>>
  /\ railToggles = <<FALSE, TRUE, FALSE>>

-----------------------------------------------------------------------------
(* C28 *)

GcSpecInit == AllIdleBut("gc") /\ GcInit

SpecColoring == GcSpecInit /\ [][GcNext]_vars

\* the ends of the edges of the three preset graphs, as pairs of node ids
PresetEdgePairs ==
  [triangle |-> {{1, 2}, {2, 3}, {1, 3}},
   cube |-> {{1, 2}, {1, 3}, {2, 4}, {3, 4}, {5, 6}, {5, 7}, {6, 8}, {7, 8},
             {1, 5}, {2, 6}, {3, 7}, {4, 8}},
   petersen |-> {{1, 2}, {2, 3}, {3, 4}, {4, 5}, {1, 5}, {1, 6}, {2, 7}, {3, 8}, {4, 9},
                 {5, 10}, {6, 8}, {8, 10}, {7, 10}, {7, 9}, {6, 9}}]

\* col gives every node one of three colours and no edge joins two of a colour
Proper3Coloring(key, col) ==
  /\ \A id \in DOMAIN col : col[id] \in {0, 1, 2}
  /\ \A a, b \in DOMAIN col : {a, b} \in PresetEdgePairs[key] /\ a # b => col[a] # col[b]

\* what holds of every state of the corner
ColoursInRange ==
  /\ \A id \in DOMAIN gcNodes : gcNodes[id] \in {-1, 0, 1, 2}
  /\ (gcOp = "check") =>
       ((gcStatus = "Proper 3-coloring") <=> Proper3Coloring(currentKey, gcNodes))

\* what holds of every step of the corner
ColouringStep ==
  /\ (gcOp' = "greedy" /\ \A id \in DOMAIN gcNodes : gcNodes[id] = -1) =>
       Proper3Coloring(currentKey, gcNodes')
  /\ (\E id \in (DOMAIN gcNodes) \cap (DOMAIN gcNodes') :
        gcNodes[id] # -1 /\ gcNodes'[id] = -1) => gcOp' \in {"reset", "preset"}

\* C28: from the all-uncoloured state of each preset graph one Greedy click
\* colours every node with a proper 3-colouring, which Check accepts; colours
\* stay in {-1, 0, 1, 2}; a coloured node is uncoloured again only by Reset or
\* by a preset load.
C28_GreedyColoursPresets == []ColoursInRange /\ [][ColouringStep]_vars

\* Check accepted the colouring Greedy gave the uncoloured Petersen graph
C28_Witness ==
  /\ gcOp = "check" /\ currentKey = "petersen" /\ gcClicks = 0
  /\ gcNodes = <<0, 1, 0, 1, 2, 1, 0, 2, 2, 1>>
  /\ gcStatus = "Proper 3-coloring"

\* Check accepted the colouring Greedy gave the uncoloured cube
C28_WitnessCube ==
  /\ gcOp = "check" /\ currentKey = "cube" /\ gcClicks = 0
  /\ \A id \in DOMAIN gcNodes : gcNodes[id] \in {0, 1}
  /\ gcStatus = "Proper 3-coloring"

-----------------------------------------------------------------------------
(* C29 *)

RqSpecInit == AllIdleBut("rq") /\ RqInit

SpecQuiz == RqSpecInit /\ [][RqNext]_vars

\* the number of questions displayed so far
QuestionsDisplayed == rqI + 1

ScoreWithinDisplayed == score <= QuestionsDisplayed

ScoreStep ==
  /\ score' >= score
  /\ score' <= score + 1
  /\ (rqClicks >= 1 /\ rqI' = rqI) => score' = score

\* C29: the score never exceeds the number of questions displayed so far, it
\* never decreases, and once an option of the question shown was clicked,
\* option clicks leave the score as it is until Next is pressed.
C29_ScoreOncePerQuestion == []ScoreWithinDisplayed /\ [][ScoreStep]_vars

\* a second click on the first question after a right answer: the score is 1
C29_Witness == rqI = 0 /\ rqClicks = 2 /\ locked /\ score = 1

\* every question displayed was answered right
C29_WitnessFull == rqI = 3 /\ score = 4 /\ scoreEl = [written |-> TRUE, score |-> 4]

-----------------------------------------------------------------------------
(* C30 *)

BootSpecInit == AllIdleBut("boot") /\ BootInit

SpecBootstrap == BootSpecInit /\ [][BootNext]_vars

\* the ten exhibit initializers in the order the listener lists them
ListedInitializers ==
  <<"initReveal", "initHandoutMode", "initSAT", "initSubsetSum", "initReductionBelt",
    "initZoo", "initGraphColoring", "initScalingWall", "initApproxGame",
    "initFPTPlayground">>

\* C30: after DOMContentLoaded each of the ten initializers was called once,
\* in the listed order, whichever of them threw, and each call left one line
\* on the console.
C30_EveryInitializerRuns ==
  domContentLoaded =>
    /\ bootInvoked = ListedInitializers
    /\ Len(bootConsole) = 10
    /\ \A k \in 1..10 : bootConsole[k].level \in {"debug", "error"}

\* the first and the fourth initializer threw and the last one still ran
C30_Witness ==
  /\ domContentLoaded
  /\ Len(bootConsole) = 10
  /\ bootConsole[1] = [level |-> "error", name |-> "Reveal"]
  /\ bootConsole[4] = [level |-> "error", name |-> "SubsetSum"]
  /\ bootConsole[10] = [level |-> "debug", name |-> "FPT"]
  /\ bootInvoked[10] = "initFPTPlayground"

\* every initializer threw
C30_WitnessAllThrow ==
  /\ domContentLoaded
  /\ Len(bootInvoked) = 10
  /\ \A k \in DOMAIN bootConsole : bootConsole[k].level = "error"

Init == SatSpecInit

Next == SatNext

Spec == Init /\ [][Next]_vars

=============================================================================
